---- MODULE Spec2Model ----
(***************************************************************************)
(* Entity identity resolution and tabular normalisation engine of the      *)
(* handbook ingestion scripts (backend/etl): header resolver (find_col),   *)
(* identity resolver (map_id), value cleaner (clean_num), table parser     *)
(* (parse_df), the upsert into the indicators table, the per-period pass  *)
(* (process_year), the runs over the periods of ingest_rescue.py,          *)
(* ingest_data.py and run_full_ingestion.py, and the thread pool of        *)
(* ingest_all.                                                             *)
(*                                                                         *)
(* Text is a sequence of one-character strings, so that lower(), strip(),  *)
(* normalize() and substring containment are computed character by         *)
(* character as Python computes them.  An optional value (Python None or a *)
(* value) is None == <<>> or Some(x) == <<x>>.  Numbers returned by        *)
(* clean_num are fixed-point, in hundredths.                               *)
(*                                                                         *)
(* A local value that a Python function computes once and reads several    *)
(* times is bound as  CHOOSE r \in { body : x \in { value } } : TRUE,  so    *)
(* that it is computed once here too.                                      *)
(***************************************************************************)
EXTENDS Integers, Sequences, FiniteSets, Bags, TLC

VARIABLES
  names,      \* load_maps: list of known name strings (canonical + aliases)
  ids,        \* load_maps: dict name string -> insurer id
  wratio,     \* scores of fuzz.WRatio for the (query, choice) pairs of the run
  pratio,     \* scores of fuzz.partial_ratio for the (query, choice) pairs
  store,      \* rows of the indicators table
  logfile,    \* lines appended to unmatched_names_{fy}.txt
  pc,         \* position of the process_year pass
  archive,    \* members of the period's zip archive, in namelist() order
  pos,        \* index of the next member of the archive
  total,      \* process_year's running row count
  yielded,    \* history: parse_df results of the tables processed in the pass
  passes,     \* history: completed passes over the archive, or direct upsert calls
  after1,     \* history: the store at the end of the first pass
  calls,      \* history: the last direct upsert call
  q_raw,      \* map_id input: raw name
  q_cols,     \* find_col input: raw column labels
  q_cands,    \* find_col input: candidate phrases
  q_out,      \* result of the function applied by the pure-function specs
  q_df,       \* table parser input: the table
  insurers,   \* load_maps input: the rows of the insurers table
  name_map,   \* load_maps input: the alias override file
  q_v,        \* clean_num input: the cell
  pipeline,   \* which ingestion script runs
  seen,       \* history: the tables read in the pass, in order
  printed,    \* the lines printed by the run
  unmatched,  \* ingest_rescue.py: the set of unresolved names of the period
  zips,       \* ingest_all: the archive behind each discovered link
  workers     \* ingest_all: the state of each process_year task

vars == << names, ids, wratio, pratio, store, logfile, pc, archive, pos, total,
           yielded, passes, after1, calls, q_raw, q_cols, q_cands, q_out,
           q_df, insurers, name_map, q_v, pipeline, seen, printed, zips, workers,
           unmatched >>

None == << >>
Some(x) == << x >>

-----------------------------------------------------------------------------
(* Python str operations *)

Uppers == << "A","B","C","D","E","F","G","H","I","J","K","L","M",
             "N","O","P","Q","R","S","T","U","V","W","X","Y","Z" >>
Lowers == << "a","b","c","d","e","f","g","h","i","j","k","l","m",
             "n","o","p","q","r","s","t","u","v","w","x","y","z" >>
Digits == << "0","1","2","3","4","5","6","7","8","9" >>

\* list.index(c), 1-based; 0 when c is not in the list
IndexIn(seq, c) ==
  IF \E i \in 1..Len(seq) : seq[i] = c
  THEN CHOOSE i \in 1..Len(seq) : seq[i] = c /\ \A j \in 1..(i - 1) : seq[j] # c
  ELSE 0

LowerOf == [c \in { Uppers[i] : i \in 1..Len(Uppers) } |-> Lowers[IndexIn(Uppers, c)]]

LowerChar(c) == IF c \in DOMAIN LowerOf THEN LowerOf[c] ELSE c

\* str.lower()
RECURSIVE lower(_)
lower(s) == IF s = << >> THEN << >> ELSE << LowerChar(Head(s)) >> \o lower(Tail(s))

IsSpace(c) == c = " "

RECURSIVE lstrip(_)
lstrip(s) == IF s # << >> /\ IsSpace(Head(s)) THEN lstrip(Tail(s)) ELSE s

RECURSIVE rstrip(_)
rstrip(s) ==
  IF s # << >> /\ IsSpace(s[Len(s)]) THEN rstrip(SubSeq(s, 1, Len(s) - 1)) ELSE s

\* str.strip()
strip(s) == rstrip(lstrip(s))

\* sub in s
Contains(sub, s) ==
  \E i \in 0..(Len(s) - Len(sub)) : SubSeq(s, i + 1, i + Len(sub)) = sub

\* s.replace(pat, ""), pat non-empty, scanning left to right
RECURSIVE RemoveAll(_, _)
RemoveAll(s, pat) ==
  IF Len(s) < Len(pat) THEN s
  ELSE IF SubSeq(s, 1, Len(pat)) = pat
       THEN RemoveAll(SubSeq(s, Len(pat) + 1, Len(s)), pat)
       ELSE << Head(s) >> \o RemoveAll(Tail(s), pat)

\* re.sub(r"\s+", " ", s)
RECURSIVE CollapseSpaces(_)
CollapseSpaces(s) ==
  IF s = << >> THEN << >>
  ELSE IF IsSpace(Head(s))
       THEN << " " >> \o CollapseSpaces(lstrip(s))
       ELSE << Head(s) >> \o CollapseSpaces(Tail(s))

\* normalize = lambda s: re.sub(r"\s+"," ",(str(s) or "").strip())
normalize(s) == CollapseSpaces(strip(s))

-----------------------------------------------------------------------------
(* rapidfuzz: scorers and process.extractOne *)

\* A scorer gives 100 to identical strings; the other scores are those of the
\* table of the run, 0 for a pair the table does not list.
Score(tbl, q, c) ==
  IF q = c THEN 100
  ELSE IF << q, c >> \in DOMAIN tbl THEN tbl[<< q, c >>] ELSE 0

\* fuzz.WRatio
WRatio(q, c) == Score(wratio, q, c)

\* fuzz.partial_ratio: 100 when the shorter string occurs inside the longer
partial_ratio(q, c) ==
  IF Contains(q, c) \/ Contains(c, q) THEN 100 ELSE Score(pratio, q, c)

\* scorer(query, choice) for the scorer passed to extractOne
Scorer(scorer, q, c) ==
  IF scorer = "WRatio" THEN WRatio(q, c) ELSE partial_ratio(q, c)

\* the score of the query against each choice, in order
RECURSIVE ScoresOf(_, _, _)
ScoresOf(query, choices, scorer) ==
  IF choices = << >> THEN << >>
  ELSE << Scorer(scorer, query, Head(choices)) >> \o ScoresOf(query, Tail(choices), scorer)

\* the index of the first of the highest scores
FirstMax(sc) ==
  CHOOSE i \in 1..Len(sc) :
    /\ \A j \in 1..Len(sc) : sc[j] <= sc[i]
    /\ \A j \in 1..(i - 1) : sc[j] < sc[i]

\* process.extractOne(query, choices, scorer=...): None for no choices, else
\* (choice, score, index) of the first choice that reaches the highest score
extractOne(query, choices, scorer) ==
  IF choices = << >> THEN None
  ELSE CHOOSE hit \in
         { Some(<< choices[FirstMax(sc)], sc[FirstMax(sc)], FirstMax(sc) >>) :
             sc \in { ScoresOf(query, choices, scorer) } } : TRUE

-----------------------------------------------------------------------------
(* Identity resolver *)

IdThreshold == 85

\* mutant of map_id: the acceptance test is hit[1] > 85
map_id_strict(raw, nms, idmap) ==
  CHOOSE iid \in
    { IF n \in DOMAIN idmap THEN Some(idmap[n])
      ELSE CHOOSE r \in
             { IF hit # None /\ hit[1][2] > IdThreshold
               THEN (IF hit[1][1] \in DOMAIN idmap THEN Some(idmap[hit[1][1]]) ELSE None)
               ELSE None :
                 hit \in { extractOne(n, nms, "WRatio") } } : TRUE :
        n \in { normalize(raw) } } : TRUE

\* map_id(raw, names, ids)
map_id(raw, nms, idmap) ==
  CHOOSE iid \in
    { IF n \in DOMAIN idmap THEN Some(idmap[n])
      ELSE CHOOSE r \in
             { IF hit # None /\ hit[1][2] >= IdThreshold
               THEN (IF hit[1][1] \in DOMAIN idmap THEN Some(idmap[hit[1][1]]) ELSE None)
               ELSE None :
                 hit \in { extractOne(n, nms, "WRatio") } } : TRUE :
        n \in { normalize(raw) } } : TRUE

-----------------------------------------------------------------------------
(* Header resolver *)

ColThreshold == 80

\* first loop of find_col: the first candidate, in list order, that equals or
\* is contained in some lowered label; the first such label, in column order
RECURSIVE FirstContainment(_, _, _)
FirstContainment(lc, candidates, k) ==
  IF k > Len(candidates) THEN 0
  ELSE CHOOSE r \in
         { IF \E i \in 1..Len(lc) : cl = lc[i] \/ Contains(cl, lc[i])
           THEN CHOOSE i \in 1..Len(lc) :
                  /\ cl = lc[i] \/ Contains(cl, lc[i])
                  /\ \A j \in 1..(i - 1) : ~(cl = lc[j] \/ Contains(cl, lc[j]))
           ELSE FirstContainment(lc, candidates, k + 1) :
             cl \in { lower(candidates[k]) } } : TRUE

\* mutant of BestFuzzy: best is replaced by an equal score too
RECURSIVE BestFuzzy_last(_, _, _, _)
BestFuzzy_last(lc, candidates, k, best) ==
  IF k > Len(candidates) THEN best
  ELSE CHOOSE r \in
         { IF match # None /\ match[1][2] >= best[2]
           THEN BestFuzzy_last(lc, candidates, k + 1,
                                << match[1][1], match[1][2], IndexIn(lc, match[1][1]) >>)
           ELSE BestFuzzy_last(lc, candidates, k + 1, best) :
             match \in { extractOne(lower(candidates[k]), lc, "partial_ratio") } } : TRUE

\* second loop of find_col: best = (label, score, index), replaced only by a
\* strictly higher score
RECURSIVE BestFuzzy(_, _, _, _)
BestFuzzy(lc, candidates, k, best) ==
  IF k > Len(candidates) THEN best
  ELSE CHOOSE r \in
         { IF match # None /\ match[1][2] > best[2]
           THEN BestFuzzy(lc, candidates, k + 1,
                           << match[1][1], match[1][2], IndexIn(lc, match[1][1]) >>)
           ELSE BestFuzzy(lc, candidates, k + 1, best) :
             match \in { extractOne(lower(candidates[k]), lc, "partial_ratio") } } : TRUE

\* lc = [str(c).lower().strip() for c in raw_cols]
RECURSIVE LowerCols(_)
LowerCols(raw_cols) ==
  IF raw_cols = << >> THEN << >>
  ELSE << strip(lower(Head(raw_cols))) >> \o LowerCols(Tail(raw_cols))

\* mutant of find_col: the best fuzzy match is returned whatever its score
find_col_any_score(raw_cols, candidates) ==
  CHOOSE col \in
    { CHOOSE r \in
        { IF hit # 0 THEN Some(raw_cols[hit])
          ELSE CHOOSE q \in
                 { IF best[3] # 0 THEN Some(raw_cols[best[3]]) ELSE None :
                     best \in { BestFuzzy(lc, candidates, 1, << None, -1, 0 >>) } } : TRUE :
            hit \in { FirstContainment(lc, candidates, 1) } } : TRUE :
        lc \in { LowerCols(raw_cols) } } : TRUE

\* find_col(raw_cols, candidates): the label of the chosen column, or None
find_col(raw_cols, candidates) ==
  CHOOSE col \in
    { CHOOSE r \in
        { IF hit # 0 THEN Some(raw_cols[hit])
          ELSE CHOOSE q \in
                 { IF best[3] # 0 /\ best[2] >= ColThreshold THEN Some(raw_cols[best[3]]) ELSE None :
                     best \in { BestFuzzy(lc, candidates, 1, << None, -1, 0 >>) } } : TRUE :
            hit \in { FirstContainment(lc, candidates, 1) } } : TRUE :
        lc \in { LowerCols(raw_cols) } } : TRUE

-----------------------------------------------------------------------------
(* Value cleaner *)

NullTokens == { << >>, << "-" >>, << "." >>, << "n","a" >>, << "n","/","a" >> }

\* mutant of KeepNumeric: the minus sign is removed with the other characters
RECURSIVE KeepNumeric_nominus(_)
KeepNumeric_nominus(s) ==
  IF s = << >> THEN << >>
  ELSE IF IndexIn(Digits, Head(s)) > 0 \/ Head(s) = "."
       THEN << Head(s) >> \o KeepNumeric_nominus(Tail(s))
       ELSE KeepNumeric_nominus(Tail(s))

\* re.sub(r"[^\d\.\-]", "", s)
RECURSIVE KeepNumeric(_)
KeepNumeric(s) ==
  IF s = << >> THEN << >>
  ELSE IF IndexIn(Digits, Head(s)) > 0 \/ Head(s) \in { ".", "-" }
       THEN << Head(s) >> \o KeepNumeric(Tail(s))
       ELSE KeepNumeric(Tail(s))

AllDigits(s) == \A i \in 1..Len(s) : IndexIn(Digits, s[i]) > 0

RECURSIVE DigitsValue(_)
DigitsValue(s) ==
  IF s = << >> THEN 0
  ELSE 10 * DigitsValue(SubSeq(s, 1, Len(s) - 1)) + (IndexIn(Digits, s[Len(s)]) - 1)

\* mutant of ParseFloat: the longest numeric prefix is parsed and the rest of
\* the string is ignored
ParseFloat_lenient(s) ==
  LET neg  == s # << >> /\ Head(s) = "-"
      body == IF neg THEN Tail(s) ELSE s
      stop == IF \E i \in 1..Len(body) : body[i] = "-" \/ (body[i] = "." /\ \E j \in 1..(i - 1) : body[j] = ".")
              THEN CHOOSE i \in 1..Len(body) :
                     /\ body[i] = "-" \/ (body[i] = "." /\ \E j \in 1..(i - 1) : body[j] = ".")
                     /\ \A k \in 1..(i - 1) :
                          ~(body[k] = "-" \/ (body[k] = "." /\ \E j \in 1..(k - 1) : body[j] = "."))
              ELSE Len(body) + 1
      pre  == SubSeq(body, 1, stop - 1)
      dot  == IndexIn(pre, ".")
      ip   == IF dot = 0 THEN pre ELSE SubSeq(pre, 1, dot - 1)
      fp   == IF dot = 0 THEN << >> ELSE SubSeq(pre, dot + 1, Len(pre))
      fp2  == SubSeq(fp \o << "0", "0" >>, 1, 2)
      mag  == 100 * DigitsValue(ip) + DigitsValue(fp2)
  IN  IF Len(ip) + Len(fp) > 0 THEN Some(IF neg THEN 0 - mag ELSE mag) ELSE None

\* float(s) for s made of digits, "." and "-": the value in hundredths (digits
\* after the second decimal are dropped), or None where float() raises
ParseFloat(s) ==
  LET neg  == s # << >> /\ Head(s) = "-"
      body == IF neg THEN Tail(s) ELSE s
      dot  == IndexIn(body, ".")
      ip   == IF dot = 0 THEN body ELSE SubSeq(body, 1, dot - 1)
      fp   == IF dot = 0 THEN << >> ELSE SubSeq(body, dot + 1, Len(body))
      fp2  == SubSeq(fp \o << "0", "0" >>, 1, 2)
      mag  == 100 * DigitsValue(ip) + DigitsValue(fp2)
  IN  IF AllDigits(ip) /\ AllDigits(fp) /\ Len(ip) + Len(fp) > 0
      THEN Some(IF neg THEN 0 - mag ELSE mag)
      ELSE None

\* mutant of clean_num: a cell that holds no number is cleaned to 0
clean_num_zero(v) ==
  CHOOSE r \in
    { IF s \in NullTokens \/ ParseFloat(s) = None THEN Some(0) ELSE ParseFloat(s) :
        s \in { strip(KeepNumeric(
                  RemoveAll(RemoveAll(RemoveAll(RemoveAll(v, << "," >>), << "%" >>),
                                      << "R","s","." >>), << "R","s" >>))) } } : TRUE

\* clean_num(v)
clean_num(v) ==
  CHOOSE r \in
    { IF s \in NullTokens THEN None ELSE ParseFloat(s) :
        s \in { strip(KeepNumeric(
                  RemoveAll(RemoveAll(RemoveAll(RemoveAll(v, << "," >>), << "%" >>),
                                      << "R","s","." >>), << "R","s" >>))) } } : TRUE

-----------------------------------------------------------------------------
(* Entity registry *)

\* rows of SELECT name,id FROM insurers
SeedRows == << << <<"A","c","m","e"," ","L","i","f","e">>, 1 >>, << <<"B","e","t","a"," ","G","e","n","e","r","a","l">>, 2 >> >>

\* the same table with one more entity, whose identifier is 0
SeedRowsZero == SeedRows \o << << <<"Z","e","t","a"," ","M","u","t","u","a","l">>, 0 >> >>

\* alias override files (insurer_name_map.yaml): (raw, canonical) in file order
AliasFiles ==
  { << >>,
    << << <<"A","c","m","e"," ","L","i","f","e"," ","I","n","s","u","r","a","n","c","e">>, <<"A","c","m","e"," ","L","i","f","e">> >> >>,
    << << <<"A","C","M","E"," ","L","I","F","F">>, <<"B","e","t","a"," ","G","e","n","e","r","a","l">> >>, << <<"G","a","m","m","a"," ","R","e">>, <<"G","a","m","m","a"," ","R","e","i","n","s","u","r","a","n","c","e">> >> >> }

\* mutant of ApplyAliases: the raw string joins the name list whatever its target
RECURSIVE ApplyAliases_append_all(_, _, _)
ApplyAliases_append_all(m, nms, idmap) ==
  IF m = << >> THEN [names |-> nms, ids |-> idmap]
  ELSE LET raw   == Head(m)[1]
           canon == Head(m)[2]
       IN  IF canon \in DOMAIN idmap
           THEN ApplyAliases_append_all(Tail(m), Append(nms, raw),
                             [x \in DOMAIN idmap \cup {raw} |->
                                IF x = raw THEN idmap[canon] ELSE idmap[x]])
           ELSE ApplyAliases_append_all(Tail(m), Append(nms, raw), idmap)

\* for raw, canon in m.items(): if canon in ids: ids[raw] = ids[canon]; names.append(raw)
RECURSIVE ApplyAliases(_, _, _)
ApplyAliases(m, nms, idmap) ==
  IF m = << >> THEN [names |-> nms, ids |-> idmap]
  ELSE LET raw   == Head(m)[1]
           canon == Head(m)[2]
       IN  IF canon \in DOMAIN idmap
           THEN ApplyAliases(Tail(m), Append(nms, raw),
                             [x \in DOMAIN idmap \cup {raw} |->
                                IF x = raw THEN idmap[canon] ELSE idmap[x]])
           ELSE ApplyAliases(Tail(m), nms, idmap)

\* dict(rows): a later row of the same name replaces the earlier one
RowsDict(rows) ==
  [n \in { rows[i][1] : i \in 1..Len(rows) } |->
     rows[CHOOSE i \in 1..Len(rows) :
            rows[i][1] = n /\ \A j \in (i + 1)..Len(rows) : rows[j][1] # n][2]]

\* load_maps()
load_maps(rows, m) ==
  ApplyAliases(m, [i \in 1..Len(rows) |-> rows[i][1]], RowsDict(rows))

-----------------------------------------------------------------------------
(* Inputs of the resolvers *)

\* raw entity-name cells
RawNames ==
  { <<"A","c","m","e"," ","L","i","f","e">>, <<"A","C","M","E"," ","L","I","F","E">>, <<" ","A","c","m","e"," "," "," ","L","i","f","e"," ">>, <<"a","c","m","e"," ","l","i","f","e">>, <<"A","c","m","e"," ","L","f","e">>,
    <<"A","c","m","e"," ","L","i","f","e"," ","I","n","s","u","r","a","n","c","e">>, <<"X","Y","Z"," ","I","n","s","u","r","n","a","c","e"," ","C","o">>, <<"B","e","t","a"," ","G","e","n","e","r","a","l">> }

IdScores == { 60, 84, 85, 95 }

\* column label lists
ColumnLists ==
  { << >>,
    << <<"C","o","m","p","a","n","y">>, <<"S","o","l","v","e","n","c","y"," ","R","a","t","i","o"," ","(","%",")">> >>,
    << <<"I","n","s","u","r","e","r"," ","C","o","d","e">>, <<"I","n","s","u","r","e","r"," ","N","a","m","e">> >>,
    << <<"S","o","l","v","e","n","c","y"," ","M","a","r","g","i","n">>, <<"S","O","L","V","E","N","C","Y">> >>,
    << <<"S","o","l","v","n","c","y"," ","R","t","i","o">>, <<"S","l","v","e","n","c","y"," ","M","a","r","g","n">> >>,
    << <<"S","r"," ","N","o">>, <<"P","a","r","t","i","c","u","l","a","r","s">> >>,
    << <<" ","C","o","m","p","a","n","y"," ">>, <<"I","n","c","u","r","r","e","d"," ","C","l","a","i","m","s"," ","R","a","t","i","o">> >> }

ColScores == { 79, 80, 90 }

NAME_HINTS ==
  << <<"i","n","s","u","r","e","r">>, <<"i","n","s","u","r","e","r"," ","n","a","m","e">>, <<"c","o","m","p","a","n","y">>, <<"i","n","s","u","r","a","n","c","e"," ","c","o","m","p","a","n","y">>, <<"n","a","m","e">>,
     <<"n","a","m","e"," ","o","f"," ","i","n","s","u","r","e","r">>, <<"c","o","m","p","a","n","y"," ","n","a","m","e">> >>

HINTS_solvency_ratio ==
  << <<"s","o","l","v","e","n","c","y"," ","r","a","t","i","o">>, <<"s","o","l","v","e","n","c","y">>, <<"s","o","l","v","e","n","c","y"," ","m","a","r","g","i","n"," ","r","a","t","i","o">>,
     <<"s","o","l","v","e","n","c","y"," ","r","a","t","i","o"," ","(","%",")">>, <<"a","v","a","i","l","a","b","l","e"," ","s","o","l","v","e","n","c","y"," ","m","a","r","g","i","n">>,
     <<"r","e","q","u","i","r","e","d"," ","s","o","l","v","e","n","c","y"," ","m","a","r","g","i","n">>, <<"a","c","t","u","a","l"," ","s","o","l","v","e","n","c","y"," ","r","a","t","i","o">> >>

HINTS_claims_ratio ==
  << <<"i","n","c","u","r","r","e","d"," ","c","l","a","i","m","s"," ","r","a","t","i","o">>, <<"c","l","a","i","m","s"," ","r","a","t","i","o">>, <<"i","c","r">>,
     <<"n","e","t"," ","i","n","c","u","r","r","e","d"," ","c","l","a","i","m","s"," ","r","a","t","i","o">>, <<"l","o","s","s"," ","r","a","t","i","o">> >>

CandidateLists == { NAME_HINTS, HINTS_solvency_ratio, HINTS_claims_ratio }

-----------------------------------------------------------------------------
(* Applying map_id and find_col to drawn inputs *)

Range(seq) == { seq[i] : i \in 1..Len(seq) }

MaxScoredCands == 2

\* no table, no report, no ingest_all task
RunIdle ==
  /\ q_df = << >> /\ seen = << >> /\ printed = << >> /\ zips = << >> /\ workers = << >>
  /\ insurers = << >> /\ name_map = << >> /\ q_v = << >>
  /\ pipeline = "ingest_handbooks_5y_and_ar" /\ unmatched = {}

PureIdle ==
  /\ store = EmptyBag /\ logfile = << >> /\ archive = << >> /\ pos = 0 /\ total = 0
  /\ yielded = << >> /\ passes = 0 /\ after1 = EmptyBag /\ calls = << >>
  /\ RunIdle

InitMapId ==
  /\ \E m \in AliasFiles :
       /\ names = load_maps(SeedRows, m).names
       /\ ids = load_maps(SeedRows, m).ids
  /\ q_raw \in RawNames
  /\ wratio \in [ { << normalize(q_raw), c >> : c \in Range(names) } -> IdScores ]
  /\ pratio = << >>
  /\ q_cols = << >> /\ q_cands = << >> /\ q_out = None
  /\ pc = "map_id"
  /\ PureIdle

CallMapId ==
  /\ pc = "map_id"
  /\ q_out' = map_id(q_raw, names, ids)
  /\ pc' = "map_id_done"
  /\ UNCHANGED << names, ids, wratio, pratio, store, logfile, archive, pos, total,
                  yielded, passes, after1, calls, q_raw, q_cols, q_cands >>
  /\ UNCHANGED << q_df, insurers, name_map, q_v, pipeline, unmatched, seen, printed, zips, workers >>

SpecMapId == InitMapId /\ [][CallMapId]_vars

InitFindCol ==
  /\ names = << >> /\ ids = << >> /\ wratio = << >>
  /\ q_cols \in ColumnLists
  /\ q_cands \in CandidateLists
  /\ pratio \in [ { << lower(q_cands[k]), LowerCols(q_cols)[i] >> :
                     k \in 1..MaxScoredCands, i \in 1..Len(q_cols) } -> ColScores ]
  /\ q_raw = << >> /\ q_out = None
  /\ pc = "find_col"
  /\ PureIdle

CallFindCol ==
  /\ pc = "find_col"
  /\ q_out' = find_col(q_cols, q_cands)
  /\ pc' = "find_col_done"
  /\ UNCHANGED << names, ids, wratio, pratio, store, logfile, archive, pos, total,
                  yielded, passes, after1, calls, q_raw, q_cols, q_cands >>
  /\ UNCHANGED << q_df, insurers, name_map, q_v, pipeline, unmatched, seen, printed, zips, workers >>

SpecFindCol == InitFindCol /\ [][CallFindCol]_vars

-----------------------------------------------------------------------------
(* Claims on the identity resolver (SpecMapId) *)

\* raw is a variant of name x in letter case or in whitespace runs only
CaseSpaceVariant(raw, x) == lower(normalize(raw)) = lower(normalize(x))

\* C6 (as stated): every variant of a registry name that differs only in letter
\* case or in whitespace runs resolves to that name's identifier, whatever the
\* other known names score.
C6_ExactPrecedenceAnyCase ==
  pc = "map_id_done" =>
    \A x \in DOMAIN ids : CaseSpaceVariant(q_raw, x) => q_out = Some(ids[x])

\* highest WRatio score of the known names for the normalized query
TopScore(n) ==
  CHOOSE t \in { WRatio(n, names[i]) : i \in 1..Len(names) } :
    \A i \in 1..Len(names) : WRatio(n, names[i]) <= t

\* C7: a raw name with no exact match resolves to the identifier of a
\* highest-scoring known name exactly when that score is >= 85, and is
\* unresolved (None) when the best score is below 85.
C7_IdentityThreshold ==
  (pc = "map_id_done" /\ normalize(q_raw) \notin DOMAIN ids /\ names # << >>) =>
    LET n == normalize(q_raw)
    IN  IF TopScore(n) >= 85
        THEN \E i \in 1..Len(names) :
               WRatio(n, names[i]) = TopScore(n) /\ q_out = Some(ids[names[i]])
        ELSE q_out = None

\* witness of C7: a fuzzy resolution accepted at the score 85 exactly
C7_Witness ==
  /\ pc = "map_id_done"
  /\ normalize(q_raw) \notin DOMAIN ids
  /\ TopScore(normalize(q_raw)) = 85
  /\ q_out # None

-----------------------------------------------------------------------------
(* Claims on the header resolver (SpecFindCol) *)

ExactPairs ==
  { << k, i >> \in (1..Len(q_cands)) \X (1..Len(q_cols)) :
      lower(q_cands[k]) = LowerCols(q_cols)[i] }

ContainmentPairs ==
  { << k, i >> \in (1..Len(q_cands)) \X (1..Len(q_cols)) :
      Contains(lower(q_cands[k]), LowerCols(q_cols)[i]) }

\* C8 (as stated): when some candidate equals some label case-insensitively,
\* the returned column is an exactly matching one.
C8_ExactBeforeContainment ==
  (pc = "find_col_done" /\ ExactPairs # {}) =>
    \E p \in ExactPairs : q_out = Some(q_cols[p[2]])

\* C9: a returned column scores >= 80 against some candidate (an exact or
\* contained candidate scores 100), and with no pair matching exactly, by
\* containment or with a score >= 80 the result is None.
C9_HeaderThreshold ==
  pc = "find_col_done" =>
    /\ q_out # None =>
         \E k \in 1..Len(q_cands), i \in 1..Len(q_cols) :
           /\ q_out = Some(q_cols[i])
           /\ partial_ratio(lower(q_cands[k]), LowerCols(q_cols)[i]) >= 80
    /\ (\A k \in 1..Len(q_cands), i \in 1..Len(q_cols) :
          partial_ratio(lower(q_cands[k]), LowerCols(q_cols)[i]) < 80)
         => q_out = None

\* witness of C9: columns are present, the best score is 79 and nothing is
\* returned
C9_Witness ==
  /\ pc = "find_col_done"
  /\ q_cols # << >>
  /\ \E k \in 1..Len(q_cands), i \in 1..Len(q_cols) :
       partial_ratio(lower(q_cands[k]), LowerCols(q_cols)[i]) = 79
  /\ \A k \in 1..Len(q_cands), i \in 1..Len(q_cols) :
       partial_ratio(lower(q_cands[k]), LowerCols(q_cols)[i]) < 80
  /\ q_out = None

\* best score of candidate k over the columns, and the column that reaches it
CandScore(k) == extractOne(lower(q_cands[k]), LowerCols(q_cols), "partial_ratio")[1][2]
CandCol(k) == extractOne(lower(q_cands[k]), LowerCols(q_cols), "partial_ratio")[1][3]

\* C10: on the fuzzy path, when several candidates reach the same best score
\* (>= 80), the column returned is the one matched by the earliest of them.
C10_TieBreak ==
  (pc = "find_col_done" /\ ContainmentPairs = {} /\ q_cols # << >>) =>
    \A k \in 1..Len(q_cands) :
      ( /\ CandScore(k) >= 80
        /\ \A j \in 1..Len(q_cands) : CandScore(j) <= CandScore(k)
        /\ \A j \in 1..(k - 1) : CandScore(j) < CandScore(k) )
      => q_out = Some(q_cols[CandCol(k)])

\* witness of C10: two candidates tie at the best score on different columns
\* and the earlier candidate's column is returned
C10_Witness ==
  /\ pc = "find_col_done" /\ ContainmentPairs = {} /\ q_cols # << >>
  /\ \E k1, k2 \in 1..Len(q_cands) :
       /\ k1 < k2
       /\ CandScore(k1) = CandScore(k2) /\ CandScore(k1) >= 80
       /\ CandCol(k1) # CandCol(k2)
       /\ \A j \in 1..Len(q_cands) : CandScore(j) <= CandScore(k1)
       /\ \A j \in 1..(k1 - 1) : CandScore(j) < CandScore(k1)
       /\ q_out = Some(q_cols[CandCol(k1)])

-----------------------------------------------------------------------------
(* Table parser *)

\* METRICS: metric label -> candidate header phrases
METRICS ==
  [ solvency_ratio |-> HINTS_solvency_ratio, claims_ratio |-> HINTS_claims_ratio ]

MetricLabels == DOMAIN METRICS

AggregateMarkers == { <<"t","o","t","a","l">>, <<"g","r","a","n","d"," ","t","o","t","a","l">> }

\* code-point order of the characters, for sorted()
CodePoints ==
  << " ", "%", "(", ")", ",", "-", ".", "/" >> \o Digits \o Uppers \o Lowers

CodeOf == [c \in { CodePoints[i] : i \in 1..Len(CodePoints) } |-> IndexIn(CodePoints, c)]

\* a < b for Python strings
RECURSIVE StrLess(_, _)
StrLess(a, b) ==
  IF a = << >> THEN b # << >>
  ELSE IF b = << >> THEN FALSE
  ELSE IF Head(a) = Head(b) THEN StrLess(Tail(a), Tail(b))
  ELSE CodeOf[Head(a)] < CodeOf[Head(b)]

\* sorted(unmatched)
RECURSIVE Sorted(_)
Sorted(S) ==
  IF S = {} THEN << >>
  ELSE LET least == CHOOSE x \in S : \A y \in S \ {x} : StrLess(x, y)
       IN  << least >> \o Sorted(S \ {least})

\* {label: clean_num(row.get(col)) for label, col in metric_cols.items() if col}
RECURSIVE CleanedOf(_, _, _)
CleanedOf(row, metric_cols, labels) ==
  IF labels = {} THEN << >>
  ELSE CHOOSE r \in
         { (l :> clean_num(row[metric_cols[l][1]])) @@ CleanedOf(row, metric_cols, labels \ {l}) :
             l \in { CHOOSE k \in labels : TRUE } } : TRUE

\* rec = {label: clean_num(row.get(col)) ...} without the None values;
\* metric_cols[label] is the column found for the label, or None
RowVals(row, metric_cols) ==
  CHOOSE rec \in
    { [l \in { k \in DOMAIN cleaned : cleaned[k] # None } |-> cleaned[l][1]] :
        cleaned \in { CleanedOf(row, metric_cols,
                                { k \in MetricLabels : metric_cols[k] # None }) } } : TRUE

\* out_rows: (nm, rec) of the rows that are not skipped and have a value
RECURSIVE OutRows(_, _, _)
OutRows(rows, name_col, metric_cols) ==
  IF rows = << >> THEN << >>
  ELSE CHOOSE r \in
         { IF nm = << >> \/ lower(nm) \in AggregateMarkers
           THEN OutRows(Tail(rows), name_col, metric_cols)
           ELSE CHOOSE q \in
                  { IF DOMAIN rec # {}
                    THEN << << nm, rec >> >> \o OutRows(Tail(rows), name_col, metric_cols)
                    ELSE OutRows(Tail(rows), name_col, metric_cols) :
                      rec \in { RowVals(Head(rows), metric_cols) } } : TRUE :
             nm \in { strip(Head(rows)[name_col]) } } : TRUE

\* dict.update: the entries of new replace those of old
Update(old, new) == new @@ old

\* merged.setdefault(nm, {}).update(vals), keys in insertion order
RECURSIVE Merged(_, _)
Merged(out_rows, acc) ==
  IF out_rows = << >> THEN acc
  ELSE CHOOSE r \in
         { Merged(Tail(out_rows), nxt) :
             nxt \in { IF \E i \in 1..Len(acc) : acc[i][1] = Head(out_rows)[1]
                       THEN [i \in 1..Len(acc) |->
                               IF acc[i][1] = Head(out_rows)[1]
                               THEN << acc[i][1], Update(acc[i][2], Head(out_rows)[2]) >>
                               ELSE acc[i]]
                       ELSE Append(acc, Head(out_rows)) } } : TRUE

\* `not iid`
Falsy(iid) == iid = None \/ iid = Some(0)

\* mutant of Resolve: the loop ends at the first name that does not resolve
RECURSIVE Resolve_stop(_, _, _, _)
Resolve_stop(merged, nms, idmap, acc) ==
  IF merged = << >> THEN acc
  ELSE CHOOSE r \in
         { IF Falsy(iid)
           THEN [acc EXCEPT !.unmatched = @ \cup { Head(merged)[1] }]
           ELSE Resolve_stop(Tail(merged), nms, idmap,
                             [acc EXCEPT !.recs =
                                Append(@, [insurer_id |-> iid, vals |-> Head(merged)[2]])]) :
             iid \in { map_id(Head(merged)[1], nms, idmap) } } : TRUE

\* the loop over merged.items(): records of the resolved names, set of the
\* unresolved ones
RECURSIVE Resolve(_, _, _, _)
Resolve(merged, nms, idmap, acc) ==
  IF merged = << >> THEN acc
  ELSE CHOOSE r \in
         { Resolve(Tail(merged), nms, idmap, nxt) :
             nxt \in { CHOOSE a \in
                         { IF Falsy(iid)
                           THEN [acc EXCEPT !.unmatched = @ \cup { Head(merged)[1] }]
                           ELSE [acc EXCEPT !.recs =
                                   Append(@, [insurer_id |-> iid, vals |-> Head(merged)[2]])] :
                             iid \in { map_id(Head(merged)[1], nms, idmap) } } : TRUE } } : TRUE

\* {label: find_col(df.columns, hints) for label, hints in METRICS.items()}
RECURSIVE MetricCols(_, _)
MetricCols(columns, labels) ==
  IF labels = {} THEN << >>
  ELSE CHOOSE r \in
         { (l :> find_col(columns, METRICS[l])) @@ MetricCols(columns, labels \ {l}) :
             l \in { CHOOSE k \in labels : TRUE } } : TRUE

NoRecs == [recs |-> << >>, unmatched |-> {}]

\* parse_df(df, names, ids, fy): the records returned and the names written to
\* the unmatched-names file
parse_df(df, nms, idmap) ==
  IF df.rows = << >> \/ df.columns = << >> THEN NoRecs
  ELSE CHOOSE r \in
         { IF name_col = None THEN NoRecs
           ELSE CHOOSE q \in
                  { Resolve(merged, nms, idmap, NoRecs) :
                      merged \in { CHOOSE g \in
                                     { Merged(out_rows, << >>) :
                                         out_rows \in { CHOOSE o \in
                                           { OutRows(df.rows, name_col[1], metric_cols) :
                                               metric_cols \in { MetricCols(df.columns, MetricLabels) } } :
                                           TRUE } } : TRUE } } : TRUE :
             name_col \in { find_col(df.columns, NAME_HINTS) } } : TRUE

-----------------------------------------------------------------------------
(* The indicators table and upsert *)

\* SQL NULL of a column the INSERT does not list
NULL == None

\* a row of indicators written by cur.execute(sql, ...): the metric columns the
\* statement lists, NULL in the others; source is Some(tag) or NULL
Row(iid, year, vals, source) ==
  [ insurer_id |-> iid, year |-> year, source |-> source,
    vals |-> [m \in MetricLabels |-> IF m \in DOMAIN vals THEN Some(vals[m]) ELSE NULL] ]

\* uniqueness key of indicators (schema.sql): (insurer_id, year, source)
SameKey(a, b) ==
  a.insurer_id = b.insurer_id /\ a.year = b.year /\ a.source = b.source

\* mutant of InsertOrReplace: INSERT, the conflicting rows stay
InsertOnly(st, row) == st (+) SetToBag({row})

\* INSERT OR REPLACE INTO indicators: the rows that conflict with the new row on
\* the key are deleted, then the new row is inserted with the listed columns
InsertOrReplace(st, row) ==
  [r \in { x \in DOMAIN st : ~SameKey(x, row) } |-> st[r]] (+) SetToBag({row})

\* the loop of upsert over recs; a record with no column besides insurer_id
\* makes the INSERT statement malformed and cur.execute raises
RECURSIVE UpsertLoop(_, _, _, _, _)
UpsertLoop(st, year, recs, source, n) ==
  IF recs = << >> THEN [store |-> st, n |-> n, raised |-> FALSE]
  ELSE IF Falsy(Head(recs).insurer_id) THEN UpsertLoop(st, year, Tail(recs), source, n)
  ELSE IF DOMAIN Head(recs).vals = {} THEN [store |-> st, n |-> n, raised |-> TRUE]
  ELSE CHOOSE r \in
         { UpsertLoop(nxt, year, Tail(recs), source, n + 1) :
             nxt \in { InsertOrReplace(st, Row(Head(recs).insurer_id[1], year,
                                               Head(recs).vals, source)) } } : TRUE

\* upsert(year, recs, source) on the table st: the table after the call, the
\* count returned; nothing is committed when the call raises
upsert(st, year, recs, source) ==
  CHOOSE r \in
    { IF res.raised THEN [store |-> st, n |-> 0, raised |-> TRUE] ELSE res :
        res \in { UpsertLoop(st, year, recs, Some(source), 0) } } : TRUE

\* upsert(year, recs) of ingest_rescue.py: the source column is not listed
upsert_rescue(st, year, recs) ==
  CHOOSE r \in
    { IF res.raised THEN [store |-> st, n |-> 0, raised |-> TRUE] ELSE res :
        res \in { UpsertLoop(st, year, recs, NULL, 0) } } : TRUE

-----------------------------------------------------------------------------
(* Direct calls of upsert *)

MaxCalls == 2

Years == { 2023, 2024 }
Sources == { "handbook", "annual_report" }

\* record lists handed to upsert: partial records, a falsy and a missing
\* insurer_id, a record with no metric
RecLists ==
  LET r1 == [insurer_id |-> Some(1), vals |-> [solvency_ratio |-> 150]]
      r2 == [insurer_id |-> Some(1), vals |-> [claims_ratio |-> 8000]]
      r3 == [insurer_id |-> Some(1), vals |-> [solvency_ratio |-> 210, claims_ratio |-> 7000]]
      r4 == [insurer_id |-> Some(2), vals |-> [solvency_ratio |-> 150]]
      r0 == [insurer_id |-> Some(0), vals |-> [solvency_ratio |-> 150]]
      rn == [insurer_id |-> None, vals |-> [claims_ratio |-> 8000]]
      re == [insurer_id |-> Some(2), vals |-> << >>]
  IN  { << >>, << r1 >>, << r2 >>, << r3 >>, << r4 >>, << r1, r2 >>,
        << r0, r4 >>, << rn >>, << r4, re >> }

InitUpsert ==
  /\ names = << >> /\ ids = << >> /\ wratio = << >> /\ pratio = << >>
  /\ store = EmptyBag
  /\ calls = << >>
  /\ passes = 0
  /\ pc = "upsert"
  /\ logfile = << >> /\ archive = << >> /\ pos = 0 /\ total = 0
  /\ yielded = << >> /\ after1 = EmptyBag
  /\ q_raw = << >> /\ q_cols = << >> /\ q_cands = << >> /\ q_out = None
  /\ RunIdle

\* one call upsert(year, recs, source) of ingest_handbooks_5y_and_ar.py
CallUpsert(year, recs, source) ==
  /\ pc = "upsert" /\ passes < MaxCalls
  /\ LET res == upsert(store, year, recs, source)
     IN  /\ store' = res.store
         /\ calls' = [year |-> year, recs |-> recs, source |-> Some(source),
                      before |-> store, n |-> res.n, raised |-> res.raised]
  /\ passes' = passes + 1
  /\ UNCHANGED << names, ids, wratio, pratio, logfile, pc, archive, pos, total,
                  yielded, after1, q_raw, q_cols, q_cands, q_out >>
  /\ UNCHANGED << q_df, insurers, name_map, q_v, pipeline, unmatched, seen, printed, zips, workers >>

\* one call upsert(year, recs) of ingest_rescue.py
CallUpsertRescue(year, recs) ==
  /\ pc = "upsert" /\ passes < MaxCalls
  /\ LET res == upsert_rescue(store, year, recs)
     IN  /\ store' = res.store
         /\ calls' = [year |-> year, recs |-> recs, source |-> NULL,
                      before |-> store, n |-> res.n, raised |-> res.raised]
  /\ passes' = passes + 1
  /\ UNCHANGED << names, ids, wratio, pratio, logfile, pc, archive, pos, total,
                  yielded, after1, q_raw, q_cols, q_cands, q_out >>
  /\ UNCHANGED << q_df, insurers, name_map, q_v, pipeline, unmatched, seen, printed, zips, workers >>

NextUpsert ==
  \/ \E year \in Years, recs \in RecLists, source \in Sources :
       CallUpsert(year, recs, source)
  \/ \E year \in Years, recs \in RecLists : CallUpsertRescue(year, recs)

SpecUpsert == InitUpsert /\ [][NextUpsert]_vars

-----------------------------------------------------------------------------
(* Claims on upsert (SpecUpsert) *)

\* the records of the last call that are written under the key of row
RecsForKey(row) ==
  { i \in 1..Len(calls.recs) :
      /\ ~Falsy(calls.recs[i].insurer_id)
      /\ calls.recs[i].insurer_id[1] = row.insurer_id
      /\ calls.year = row.year
      /\ calls.source = row.source }

\* C1 (as stated): a metric stored non-null under a key keeps its value when
\* upsert is called with a record for the same key that does not mention it.
C1_ColumnLevelUpsert ==
  (pc = "upsert" /\ passes > 0 /\ ~calls.raised) =>
    \A row \in BagToSet(calls.before), m \in MetricLabels :
      ( /\ row.vals[m] # NULL
        /\ RecsForKey(row) # {}
        /\ \A i \in RecsForKey(row) : m \notin DOMAIN calls.recs[i].vals )
      => \E now \in BagToSet(store) : SameKey(now, row) /\ now.vals[m] = row.vals[m]

-----------------------------------------------------------------------------
(* run_full_ingestion.py: parse_and_upsert *)

\* clean_num(value) of run_full_ingestion.py
NullTokensFull ==
  { << >>, << "-" >>, <<"n","a">>, <<"n","/","a">>, <<"n","o","n","e">>, <<"n","a","n">> }

clean_num_full(value) ==
  CHOOSE r \in
    { IF s \in NullTokensFull THEN None ELSE ParseFloat(s) :
        s \in { lower(strip(RemoveAll(RemoveAll(value, << "," >>), << "%" >>))) } } : TRUE

\* the keywords of the entity-name column
NameKeys == << <<"i","n","s","u","r","e","r">>, <<"c","o","m","p","a","n","y">>, <<"n","a","m","e">> >>

\* metric_keys, for the metrics of the model
metric_keys ==
  [ solvency_ratio |-> << <<"s","o","l","v","e","n","c","y">>, <<"s","o","l","v","e","n","c","y"," ","r","a","t","i","o">> >>,
    claims_ratio |-> << <<"i","n","c","u","r","r","e","d"," ","c","l","a","i","m","s"," ","r","a","t","i","o">>, <<"c","l","a","i","m","s"," ","r","a","t","i","o">> >> ]

\* next((c for c in df.columns if any(k in c for k in keys)), None): the index
\* of the first lowered label that contains a keyword, 0 for None
FirstColWith(lc, keys) ==
  IF \E i \in 1..Len(lc) : \E k \in 1..Len(keys) : Contains(keys[k], lc[i])
  THEN CHOOSE i \in 1..Len(lc) :
         /\ \E k \in 1..Len(keys) : Contains(keys[k], lc[i])
         /\ \A j \in 1..(i - 1) : \A k \in 1..Len(keys) : ~Contains(keys[k], lc[j])
  ELSE 0

\* available_metrics: metric -> index of its column, for the metrics found
RECURSIVE AvailableMetrics(_, _)
AvailableMetrics(lc, labels) ==
  IF labels = {} THEN << >>
  ELSE CHOOSE r \in
         { CHOOSE q \in
             { IF c = 0 THEN AvailableMetrics(lc, labels \ {l})
               ELSE (l :> c) @@ AvailableMetrics(lc, labels \ {l}) :
                 c \in { FirstColWith(lc, metric_keys[l]) } } : TRUE :
             l \in { CHOOSE k \in labels : TRUE } } : TRUE

\* record = {metric: clean_num(row.get(col))} without the None values
RECURSIVE RecordVals(_, _, _, _)
RecordVals(row, raw_cols, available, labels) ==
  IF labels = {} THEN << >>
  ELSE CHOOSE r \in
         { CHOOSE q \in
             { IF val = None THEN RecordVals(row, raw_cols, available, labels \ {l})
               ELSE (l :> val[1]) @@ RecordVals(row, raw_cols, available, labels \ {l}) :
                 val \in { clean_num_full(row[raw_cols[available[l]]]) } } : TRUE :
             l \in { CHOOSE k \in labels : TRUE } } : TRUE

\* the loop over df.iterrows(): records of the resolved rows (one per row, also
\* with no metric), set of the unresolved names
RECURSIVE RowRecords(_, _, _, _, _, _, _)
RowRecords(rows, raw_cols, name_col, available, nms, idmap, acc) ==
  IF rows = << >> THEN acc
  ELSE CHOOSE r \in
         { IF raw_name = << >> \/ lower(raw_name) \in AggregateMarkers
           THEN RowRecords(Tail(rows), raw_cols, name_col, available, nms, idmap, acc)
           ELSE CHOOSE q \in
                  { RowRecords(Tail(rows), raw_cols, name_col, available, nms, idmap, nxt) :
                      nxt \in { CHOOSE a \in
                        { IF iid = None
                          THEN [acc EXCEPT !.unmatched = @ \cup { raw_name }]
                          ELSE [acc EXCEPT !.recs =
                                  Append(@, [insurer_id |-> iid,
                                             vals |-> RecordVals(Head(rows), raw_cols, available,
                                                                 DOMAIN available)])] :
                            iid \in { map_id(raw_name, nms, idmap) } } : TRUE } } : TRUE :
             raw_name \in { strip(Head(rows)[raw_cols[name_col]]) } } : TRUE

\* for r in records: every record is inserted, whatever its identifier; a
\* record with no metric makes the INSERT statement malformed
RECURSIVE InsertLoop(_, _, _, _)
InsertLoop(st, year, recs, n) ==
  IF recs = << >> THEN [store |-> st, n |-> n, raised |-> FALSE]
  ELSE IF DOMAIN Head(recs).vals = {} THEN [store |-> st, n |-> n, raised |-> TRUE]
  ELSE CHOOSE r \in
         { InsertLoop(nxt, year, Tail(recs), n + 1) :
             nxt \in { InsertOrReplace(st, Row(Head(recs).insurer_id[1], year,
                                               Head(recs).vals, NULL)) } } : TRUE

\* parse_and_upsert(year, df, names, ids) on the table st: the table after the
\* call, the count and the unmatched set returned, whether cur.execute raised
\* (nothing of the call is committed then)
parse_and_upsert(st, year, df, nms, idmap) ==
  IF df.rows = << >> THEN [store |-> st, n |-> 0, unmatched |-> {}, raised |-> FALSE]
  ELSE CHOOSE r \in
         { IF FirstColWith(lc, NameKeys) = 0
           THEN [store |-> st, n |-> 0, unmatched |-> {}, raised |-> FALSE]
           ELSE CHOOSE q \in
                  { CHOOSE w \in
                      { [ store |-> IF u.raised THEN st ELSE u.store,
                          n |-> IF u.raised THEN 0 ELSE u.n,
                          unmatched |-> p.unmatched,
                          raised |-> u.raised ] :
                            u \in { InsertLoop(st, year, p.recs, 0) } } : TRUE :
                      p \in { RowRecords(df.rows, df.columns, FirstColWith(lc, NameKeys),
                                         AvailableMetrics(lc, MetricLabels),
                                         nms, idmap, NoRecs) } } : TRUE :
             lc \in { LowerCols(df.columns) } } : TRUE

-----------------------------------------------------------------------------
(* ingest_rescue.py and ingest_data.py: the table parsers, one pass over the
   rows for each metric label *)

\* the labels of the model in the order of METRICS.items() and labels.items()
MetricOrder == << "solvency_ratio", "claims_ratio" >>

NoOut == [out |-> << >>, unmatched |-> {}]

\* for _, row in df.iterrows(), under one label: (iid, label, val) appended to
\* out for the resolved rows with a value, the unresolved names added to
\* unmatched; plain selects clean_num of ingest_data.py
RECURSIVE LabelRows(_, _, _, _, _, _, _, _)
LabelRows(rows, name_col, val_col, label, plain, nms, idmap, acc) ==
  IF rows = << >> THEN acc
  ELSE CHOOSE r \in
         { IF raw_name = << >> \/ lower(raw_name) \in AggregateMarkers
           THEN LabelRows(Tail(rows), name_col, val_col, label, plain, nms, idmap, acc)
           ELSE CHOOSE q \in
                  { LabelRows(Tail(rows), name_col, val_col, label, plain, nms, idmap, nxt) :
                      nxt \in { CHOOSE a \in
                        { IF Falsy(iid)
                          THEN [acc EXCEPT !.unmatched = @ \cup { raw_name }]
                          ELSE CHOOSE b \in
                                 { IF val = None THEN acc
                                   ELSE [acc EXCEPT !.out = Append(@, << iid[1], label, val[1] >>)] :
                                     val \in { IF plain THEN clean_num_full(Head(rows)[val_col])
                                               ELSE clean_num(Head(rows)[val_col]) } } : TRUE :
                            iid \in { map_id(raw_name, nms, idmap) } } : TRUE } } : TRUE :
             raw_name \in { strip(Head(rows)[name_col]) } } : TRUE

\* the column of a label: find_col(raw_cols, hints) in ingest_rescue.py, the
\* first lowered column that contains a hint in ingest_data.py
ValueCol(columns, label, plain) ==
  IF plain
  THEN CHOOSE r \in
         { IF c = 0 THEN None ELSE Some(columns[c]) :
             c \in { FirstColWith(LowerCols(columns), metric_keys[label]) } } : TRUE
  ELSE find_col(columns, METRICS[label])

\* for label, hints in METRICS.items(): the labels without a column are passed
RECURSIVE LabelLoop(_, _, _, _, _, _, _)
LabelLoop(labels, df, name_col, plain, nms, idmap, acc) ==
  IF labels = << >> THEN acc
  ELSE CHOOSE r \in
         { IF val_col = None
           THEN LabelLoop(Tail(labels), df, name_col, plain, nms, idmap, acc)
           ELSE CHOOSE q \in
                  { LabelLoop(Tail(labels), df, name_col, plain, nms, idmap, nxt) :
                      nxt \in { LabelRows(df.rows, name_col, val_col[1], Head(labels),
                                          plain, nms, idmap, acc) } } : TRUE :
             val_col \in { ValueCol(df.columns, Head(labels), plain) } } : TRUE

\* merged.setdefault(iid, {"insurer_id": iid}).update(...), keys in insertion order
RECURSIVE MergedById(_, _)
MergedById(out, acc) ==
  IF out = << >> THEN acc
  ELSE CHOOSE r \in
         { MergedById(Tail(out), nxt) :
             nxt \in { IF \E i \in 1..Len(acc) : acc[i].insurer_id = Some(Head(out)[1])
                       THEN [i \in 1..Len(acc) |->
                               IF acc[i].insurer_id = Some(Head(out)[1])
                               THEN [acc[i] EXCEPT !.vals =
                                       Update(@, (Head(out)[2] :> Head(out)[3]))]
                               ELSE acc[i]]
                       ELSE Append(acc, [insurer_id |-> Some(Head(out)[1]),
                                         vals |-> (Head(out)[2] :> Head(out)[3])]) } } : TRUE

\* parse_df(df, names, ids, unmatched) of ingest_rescue.py: the records
\* returned and the names added to the set of the period
parse_df_rescue(df, nms, idmap) ==
  IF df.rows = << >> \/ df.columns = << >> THEN NoRecs
  ELSE CHOOSE r \in
         { IF name_col = None THEN NoRecs
           ELSE CHOOSE q \in
                  { [recs |-> MergedById(acc.out, << >>), unmatched |-> acc.unmatched] :
                      acc \in { LabelLoop(MetricOrder, df, name_col[1], FALSE,
                                          nms, idmap, NoOut) } } : TRUE :
             name_col \in { find_col(df.columns, NAME_HINTS) } } : TRUE

\* parse_table(df, labels, names, ids, unmatched) of ingest_data.py
parse_table(df, nms, idmap) ==
  IF df.rows = << >> \/ df.columns = << >> THEN NoRecs
  ELSE CHOOSE r \in
         { IF c = 0 THEN NoRecs
           ELSE CHOOSE q \in
                  { [recs |-> MergedById(acc.out, << >>), unmatched |-> acc.unmatched] :
                      acc \in { LabelLoop(MetricOrder, df, df.columns[c], TRUE,
                                          nms, idmap, NoOut) } } : TRUE :
             c \in { FirstColWith(LowerCols(df.columns), NameKeys) } } : TRUE

-----------------------------------------------------------------------------
(* The per-period pass: process_year of ingest_handbooks_5y_and_ar.py *)

\* a cell pandas reads as missing: str(NaN)
NaN == <<"n","a","n">>

\* tables (DataFrames read with dtype=str): column labels and rows
T_solv ==
  [ columns |-> << <<"C","o","m","p","a","n","y">>, <<"S","o","l","v","e","n","c","y"," ","R","a","t","i","o"," ","(","%",")">> >>,
    rows |-> << (<<"C","o","m","p","a","n","y">> :> <<"A","c","m","e"," ","L","i","f","e">>) @@ (<<"S","o","l","v","e","n","c","y"," ","R","a","t","i","o"," ","(","%",")">> :> <<"1",".","5","0">>),
                (<<"C","o","m","p","a","n","y">> :> <<"B","e","t","a"," ","G","e","n","e","r","a","l">>) @@ (<<"S","o","l","v","e","n","c","y"," ","R","a","t","i","o"," ","(","%",")">> :> <<"2">>),
                (<<"C","o","m","p","a","n","y">> :> <<"G","r","a","n","d"," ","T","o","t","a","l">>) @@ (<<"S","o","l","v","e","n","c","y"," ","R","a","t","i","o"," ","(","%",")">> :> <<"9">>) >> ]

T_claims ==
  [ columns |-> << <<"I","n","s","u","r","e","r">>, <<"I","n","c","u","r","r","e","d"," ","C","l","a","i","m","s"," ","R","a","t","i","o">> >>,
    rows |-> << (<<"I","n","s","u","r","e","r">> :> <<"A","c","m","e"," ","L","i","f","e">>) @@ (<<"I","n","c","u","r","r","e","d"," ","C","l","a","i","m","s"," ","R","a","t","i","o">> :> <<"8","0","%">>),
                (<<"I","n","s","u","r","e","r">> :> <<"X","Y","Z"," ","I","n","s","u","r","n","a","c","e"," ","C","o">>) @@ (<<"I","n","c","u","r","r","e","d"," ","C","l","a","i","m","s"," ","R","a","t","i","o">> :> <<"7","0">>),
                (<<"I","n","s","u","r","e","r">> :> <<"Z","e","t","a"," ","M","u","t","u","a","l">>) @@ (<<"I","n","c","u","r","r","e","d"," ","C","l","a","i","m","s"," ","R","a","t","i","o">> :> <<"n","/","a">>) >> ]

T_solv2 ==
  [ columns |-> << <<"I","n","s","u","r","e","r"," ","N","a","m","e">>, <<"S","o","l","v","e","n","c","y"," ","R","a","t","i","o">> >>,
    rows |-> << (<<"I","n","s","u","r","e","r"," ","N","a","m","e">> :> <<"A","c","m","e"," ","L","i","f","e">>) @@ (<<"S","o","l","v","e","n","c","y"," ","R","a","t","i","o">> :> <<"2",".","1","0">>),
                (<<"I","n","s","u","r","e","r"," ","N","a","m","e">> :> <<"A","c","m","e"," ","L","f","e">>) @@ (<<"S","o","l","v","e","n","c","y"," ","R","a","t","i","o">> :> <<"3">>),
                (<<"I","n","s","u","r","e","r"," ","N","a","m","e">> :> <<"B","e","t","a"," ","G","e","n","e","r","a","l">>) @@ (<<"S","o","l","v","e","n","c","y"," ","R","a","t","i","o">> :> <<"-">>) >> ]

T_both ==
  [ columns |-> << <<"C","o","m","p","a","n","y">>, <<"S","o","l","v","n","c","y"," ","R","t","i","o">>, <<"C","l","a","i","m","s"," ","R","a","t","i","o">> >>,
    rows |-> << (<<"C","o","m","p","a","n","y">> :> <<"B","e","t","a"," ","G","e","n","e","r","a","l">>) @@ (<<"S","o","l","v","n","c","y"," ","R","t","i","o">> :> <<"1",",","8","5","0",".","2","5","%">>)
                  @@ (<<"C","l","a","i","m","s"," ","R","a","t","i","o">> :> <<"n","/","a">>),
                (<<"C","o","m","p","a","n","y">> :> <<" ","B","e","t","a"," "," ","G","e","n","e","r","a","l"," ">>) @@ (<<"S","o","l","v","n","c","y"," ","R","t","i","o">> :> NaN)
                  @@ (<<"C","l","a","i","m","s"," ","R","a","t","i","o">> :> <<"6","5">>),
                (<<"C","o","m","p","a","n","y">> :> NaN) @@ (<<"S","o","l","v","n","c","y"," ","R","t","i","o">> :> <<"4">>)
                  @@ (<<"C","l","a","i","m","s"," ","R","a","t","i","o">> :> NaN) >> ]

T_none ==
  [ columns |-> << <<"S","r"," ","N","o">>, <<"P","a","r","t","i","c","u","l","a","r","s">> >>,
    rows |-> << (<<"S","r"," ","N","o">> :> <<"1">>) @@ (<<"P","a","r","t","i","c","u","l","a","r","s">> :> <<"A","c","m","e"," ","L","i","f","e">>) >> ]

\* a table with an entity-name column and no metric column
T_names ==
  [ columns |-> << <<"I","n","s","u","r","e","r">>, <<"R","e","m","a","r","k","s">> >>,
    rows |-> << (<<"I","n","s","u","r","e","r">> :> <<"N","o","v","a"," ","A","s","s","u","r","a","n","c","e">>) @@ (<<"R","e","m","a","r","k","s">> :> <<"n","e","w">>) >> ]

T_empty == [ columns |-> << <<"C","o","m","p","a","n","y">>, <<"S","o","l","v","e","n","c","y"," ","R","a","t","i","o">> >>, rows |-> << >> ]

\* a sheet of a member: whether pandas reads it, and the table read
Sheet(df) == [readable |-> TRUE, df |-> df]
Corrupt == [readable |-> FALSE, df |-> T_empty]

\* members of the archive: extension, whether file_size >= 2000, sheets
Members ==
  { [ext |-> "csv",  big |-> TRUE,  sheets |-> << Sheet(T_solv) >>],
    [ext |-> "csv",  big |-> TRUE,  sheets |-> << Sheet(T_claims) >>],
    [ext |-> "csv",  big |-> TRUE,  sheets |-> << Sheet(T_solv2) >>],
    [ext |-> "csv",  big |-> TRUE,  sheets |-> << Corrupt >>],
    [ext |-> "csv",  big |-> FALSE, sheets |-> << Sheet(T_both) >>],
    [ext |-> "pdf",  big |-> TRUE,  sheets |-> << >>],
    [ext |-> "xlsx", big |-> TRUE,  sheets |-> << Sheet(T_solv), Sheet(T_claims) >>],
    [ext |-> "xlsx", big |-> TRUE,
     sheets |-> << Sheet(T_none), Sheet(T_both), Corrupt, Sheet(T_solv) >>],
    [ext |-> "xlsx", big |-> TRUE,  
     sheets |-> << Sheet(T_empty), Sheet(T_names), Sheet(T_solv2), Sheet(T_claims) >>] }

MaxMembers == 2

RECURSIVE SeqsUpTo(_, _)
SeqsUpTo(S, n) ==
  IF n = 0 THEN { << >> }
  ELSE LET shorter == SeqsUpTo(S, n - 1)
       IN  shorter \cup { Append(a, x) : a \in shorter, x \in S }

Archives == SeqsUpTo(Members, MaxMembers)

\* the members drawn for ingest_rescue.py, already in the order of `ordered`:
\* tables and workbooks with exact headers, an unreadable file, an unreadable sheet
RescueMembers ==
  { m \in Members :
      /\ m.big /\ m.ext # "pdf"
      /\ \A k \in 1..Len(m.sheets) : m.sheets[k].df # T_solv2 }

RescueArchives == SeqsUpTo(RescueMembers, MaxMembers)

\* the period of the pass: (fy, year) of FY_TO_YEAR
PassYear == 2024

\* VERBOSE = False: the except clause of a member prints nothing
VERBOSE == FALSE

\* the accumulator of a member: the table, the lines appended to the
\* unmatched-names file, the count, the last count, the parse results, the
\* tables read, whether upsert raised, whether the except clause was entered
NewAcc(st) ==
  [ store |-> st, log |-> << >>, n |-> 0, last |-> 0, yielded |-> << >>,
    seen |-> << >>, raised |-> FALSE, failed |-> FALSE, unmatched |-> {},
    year |-> PassYear ]

\* pd.read_csv / pd.read_excel raises: the except clause of the member
ReadFails(acc) ==
  [acc EXCEPT !.seen = Append(@, [table |-> Corrupt.df, read |-> FALSE]),
              !.failed = TRUE]

\* one table of the pass: parse_df, its lines appended to the unmatched-names
\* file, then upsert(year, recs, "handbook")
ParseAndUpsert(acc, df) ==
  CHOOSE r \in
    { CHOOSE q \in
        { [ store |-> u.store,
            log |-> acc.log \o Sorted(p.unmatched),
            n |-> acc.n + u.n,
            last |-> u.n,
            yielded |-> Append(acc.yielded, p.recs),
            seen |-> Append(acc.seen, [table |-> df, read |-> TRUE]),
            raised |-> u.raised,
            failed |-> u.raised,
            unmatched |-> acc.unmatched,
            year |-> acc.year ] :
              u \in { upsert(acc.store, acc.year, p.recs, "handbook") } } : TRUE :
        p \in { parse_df(df, names, ids) } } : TRUE

\* for sh in xls.sheet_names[1:]: a sheet that cannot be read, or an upsert
\* that raises, ends the loop (the except clause of the member)
RECURSIVE OtherSheets(_, _)
OtherSheets(acc, sheets) ==
  IF sheets = << >> \/ acc.raised THEN acc
  ELSE IF ~Head(sheets).readable THEN ReadFails(acc)
  ELSE CHOOSE r \in
         { OtherSheets(nxt, Tail(sheets)) :
             nxt \in { ParseAndUpsert(acc, Head(sheets).df) } } : TRUE

\* the body of the loop over z.namelist() for member m
ProcessOne(acc, m) ==
  IF m.ext \notin { "csv", "xlsx", "xls" } \/ ~m.big THEN acc
  ELSE IF ~Head(m.sheets).readable THEN ReadFails(acc)
  ELSE CHOOSE r \in
         { IF m.ext = "csv" \/ first.raised \/ first.last # 0 THEN first
           ELSE OtherSheets(first, Tail(m.sheets)) :
             first \in { ParseAndUpsert(acc, Head(m.sheets).df) } } : TRUE

\* ingest_rescue.py, one table of the pass: parse_df adds the unresolved names
\* to the set of the period, then upsert(year, recs)
ParseAndUpsertRescue(acc, df) ==
  CHOOSE r \in
    { CHOOSE q \in
        { [ store |-> u.store,
            log |-> acc.log,
            n |-> acc.n + u.n,
            last |-> u.n,
            yielded |-> Append(acc.yielded, p.recs),
            seen |-> Append(acc.seen, [table |-> df, read |-> TRUE]),
            raised |-> u.raised,
            failed |-> u.raised,
            unmatched |-> acc.unmatched \cup p.unmatched,
            year |-> acc.year ] :
              u \in { upsert_rescue(acc.store, acc.year, p.recs) } } : TRUE :
        p \in { parse_df_rescue(df, names, ids) } } : TRUE

\* ingest_rescue.py, for sh in xls.sheet_names: every sheet, the first one
\* included; a sheet that cannot be read ends the loop with an exception
RECURSIVE AllSheets(_, _)
AllSheets(acc, sheets) ==
  IF sheets = << >> \/ acc.failed THEN acc
  ELSE IF ~Head(sheets).readable THEN ReadFails(acc)
  ELSE CHOOSE r \in
         { AllSheets(nxt, Tail(sheets)) :
             nxt \in { ParseAndUpsertRescue(acc, Head(sheets).df) } } : TRUE

\* ingest_rescue.py, the body of the loop over the ordered members: a
\* workbook whose loop over the sheets raises is read again, sheet by sheet,
\* by the inner except clause; what that raises reaches `except: continue`
ProcessOneRescue(acc, m) ==
  IF m.ext \notin { "csv", "xlsx", "xls" } THEN acc
  ELSE IF m.ext = "csv"
  THEN IF ~Head(m.sheets).readable THEN ReadFails(acc)
       ELSE ParseAndUpsertRescue(acc, Head(m.sheets).df)
  ELSE IF ~Head(m.sheets).readable
  THEN AllSheets([ReadFails(acc) EXCEPT !.failed = FALSE], m.sheets)
  ELSE CHOOSE r \in
         { IF first.last # 0 THEN first
           ELSE CHOOSE q \in
                  { IF ~again.failed THEN again
                    ELSE AllSheets([again EXCEPT !.failed = FALSE], m.sheets) :
                      again \in { AllSheets(first, m.sheets) } } : TRUE :
             first \in { ParseAndUpsertRescue(acc, Head(m.sheets).df) } } : TRUE

\* the member loop of the script that runs
ProcessOneOf(acc, m) ==
  IF pipeline = "ingest_rescue" THEN ProcessOneRescue(acc, m) ELSE ProcessOne(acc, m)

MaxPasses == 2

\* tables the pass can start from: empty, or rows of an earlier run
InitialStores ==
  { EmptyBag,
    SetToBag({ Row(1, PassYear, [claims_ratio |-> 7500], Some("handbook")),
               Row(2, 2023, [solvency_ratio |-> 190], Some("handbook")) }) }

\* the registry of the pass: the seeded rows and the one-line alias file
PassAliasFiles == { m \in AliasFiles : Len(m) = 1 }

Init ==
  /\ \E m \in PassAliasFiles :
       /\ names = load_maps(SeedRows, m).names
       /\ ids = load_maps(SeedRows, m).ids
  /\ wratio \in [ { << <<"A","c","m","e"," ","L","f","e">>, <<"A","c","m","e"," ","L","i","f","e">> >> } -> { 84, 85 } ]
  /\ pratio \in [ { << <<"s","o","l","v","e","n","c","y"," ","r","a","t","i","o">>, <<"s","o","l","v","n","c","y"," ","r","t","i","o">> >> } -> { 79, 90 } ]
  /\ store \in InitialStores
  /\ logfile = << >>
  /\ pc = "idle"
  /\ archive = << >> /\ pos = 0 /\ total = 0
  /\ yielded = << >> /\ passes = 0 /\ after1 = EmptyBag /\ calls = << >>
  /\ q_raw = << >> /\ q_cols = << >> /\ q_cands = << >> /\ q_out = None
  /\ q_df = << >> /\ seen = << >> /\ printed = << >> /\ zips = << >> /\ workers = << >>
  /\ insurers = << >> /\ name_map = << >> /\ q_v = << >>
  /\ unmatched = {}
  /\ pipeline \in { "ingest_handbooks_5y_and_ar", "ingest_rescue" }

\* process_year is called for the period and download_cached returns the archive
StartPass(z) ==
  /\ pc = "idle"
  /\ pipeline = "ingest_rescue" => z \in RescueArchives
  /\ archive' = z
  /\ pos' = 1 /\ total' = 0 /\ yielded' = << >> /\ seen' = << >>
  /\ unmatched' = {}
  /\ pc' = "members"
  /\ UNCHANGED << names, ids, wratio, pratio, store, logfile, passes, after1, calls,
                  q_raw, q_cols, q_cands, q_out >>
  /\ UNCHANGED << q_df, insurers, name_map, q_v, pipeline, printed, zips, workers >>

\* download_cached raises (request failed or file too small): "[fy] Failed";
\* download_zip_cached of ingest_rescue.py raises: "[year] Download failed"
DownloadFails ==
  /\ pc = "idle"
  /\ pc' = "failed"
  /\ printed' = Append(printed, IF pipeline = "ingest_rescue"
                                 THEN << "Download failed" >> ELSE << "Failed" >>)
  /\ UNCHANGED << names, ids, wratio, pratio, store, logfile, archive, pos, total,
                  yielded, passes, after1, calls, q_raw, q_cols, q_cands, q_out >>
  /\ UNCHANGED << q_df, insurers, name_map, q_v, pipeline, unmatched, seen, zips, workers >>

\* mutant of ProcessMember, the member loop without its own except clause:
\* the exception of a table
\* reaches the except clause of process_year and ends the pass
ProcessMember_abort ==
  /\ pc = "members" /\ pos <= Len(archive)
  /\ \E res \in { ProcessOneOf(NewAcc(store), archive[pos]) } :
       /\ store' = res.store
       /\ logfile' = logfile \o res.log
       /\ total' = total + res.n
       /\ yielded' = yielded \o res.yielded
       /\ seen' = seen \o res.seen
       /\ unmatched' = unmatched \cup res.unmatched
       /\ printed' = IF res.failed THEN Append(printed, << "Failed" >>) ELSE printed
       /\ pc' = IF res.failed THEN "failed" ELSE pc
  /\ pos' = pos + 1
  /\ UNCHANGED << names, ids, wratio, pratio, archive, passes, after1, calls,
                  q_raw, q_cols, q_cands, q_out >>
  /\ UNCHANGED << q_df, insurers, name_map, q_v, pipeline, zips, workers >>

\* one iteration of the loop over z.namelist()
ProcessMember ==
  /\ pc = "members" /\ pos <= Len(archive)
  /\ \E res \in { ProcessOneOf(NewAcc(store), archive[pos]) } :
       /\ store' = res.store
       /\ logfile' = logfile \o res.log
       /\ total' = total + res.n
       /\ yielded' = yielded \o res.yielded
       /\ seen' = seen \o res.seen
       /\ unmatched' = unmatched \cup res.unmatched
       /\ printed' = IF res.failed /\ VERBOSE
                     THEN Append(printed, << "Error reading", pos >>)
                     ELSE printed
  /\ pos' = pos + 1
  /\ UNCHANGED << names, ids, wratio, pratio, pc, archive, passes, after1, calls,
                  q_raw, q_cols, q_cands, q_out >>
  /\ UNCHANGED << q_df, insurers, name_map, q_v, pipeline, zips, workers >>

\* the loop is over: "[fy] Done, inserted: total", return total; in
\* ingest_rescue.py the names of the period are written, sorted, to
\* unmatched_names.txt, then "[year] Inserted rows: total"
FinishPass ==
  /\ pc = "members" /\ pos > Len(archive)
  /\ pc' = "done"
  /\ passes' = passes + 1
  /\ after1' = IF passes = 0 THEN store ELSE after1
  /\ logfile' = IF pipeline = "ingest_rescue" THEN logfile \o Sorted(unmatched) ELSE logfile
  /\ printed' = Append(printed, IF pipeline = "ingest_rescue"
                                 THEN << "Inserted rows", total >>
                                 ELSE << "Done, inserted", total >>)
  /\ UNCHANGED << names, ids, wratio, pratio, store, archive, pos, total,
                  yielded, calls, q_raw, q_cols, q_cands, q_out >>
  /\ UNCHANGED << q_df, insurers, name_map, q_v, pipeline, unmatched, seen, zips, workers >>

\* ingestion is run again for the period: the cached archive, the same registry
Rerun ==
  /\ pc = "done" /\ passes < MaxPasses
  /\ pos' = 1 /\ total' = 0 /\ yielded' = << >> /\ seen' = << >>
  /\ unmatched' = {}
  /\ pc' = "members"
  /\ UNCHANGED << names, ids, wratio, pratio, store, logfile, archive, passes, after1,
                  calls, q_raw, q_cols, q_cands, q_out >>
  /\ UNCHANGED << q_df, insurers, name_map, q_v, pipeline, printed, zips, workers >>

Next ==
  \/ \E z \in Archives : StartPass(z)
  \/ DownloadFails
  \/ ProcessMember
  \/ FinishPass
  \/ Rerun

Spec == Init /\ [][Next]_vars

-----------------------------------------------------------------------------
(* The pass: union over tables, later table wins, second run *)

\* the source column of the rows the pass writes: "handbook", or NULL in
\* ingest_rescue.py, whose INSERT does not list the column
PassSource == IF pipeline = "ingest_rescue" THEN NULL ELSE Some("handbook")

\* the row of `e` for the period and the source of the pass, if any
HandbookRows(e) ==
  { r \in BagToSet(store) :
      r.insurer_id = e /\ r.year = PassYear /\ r.source = PassSource }

\* (table, record) positions of the pass that yielded metric m for entity e
YieldsOf(e, m) ==
  { << t, i >> \in (1..Len(yielded)) \X (1..4) :
      /\ i <= Len(yielded[t])
      /\ yielded[t][i].insurer_id = Some(e)
      /\ m \in DOMAIN yielded[t][i].vals }

\* tables of the pass that yielded metric m for entity e
TablesOf(e, m) == { p[1] : p \in YieldsOf(e, m) }

Entities == { ids[n] : n \in DOMAIN ids }

\* C2 (as stated): at the end of a pass the row of each (entity, year, source)
\* holds every metric that some table of the pass yielded for the entity.
C2_UnionOverTables ==
  pc = "done" =>
    \A e \in Entities, m \in MetricLabels :
      YieldsOf(e, m) # {} => \E r \in HandbookRows(e) : r.vals[m] # NULL

\* the last (table, record) position that yielded m for e
LastYield(e, m) ==
  CHOOSE p \in YieldsOf(e, m) :
    \A q \in YieldsOf(e, m) : q[1] < p[1] \/ (q[1] = p[1] /\ q[2] <= p[2])

\* C3 (as stated): when two tables of a pass both yield metric m for an entity,
\* the value stored at the end of the pass is the one of the later table.
C3_LaterTableWins ==
  pc = "done" =>
    \A e \in Entities, m \in MetricLabels :
      Cardinality(TablesOf(e, m)) >= 2 =>
        \E r \in HandbookRows(e) :
          r.vals[m] = Some(yielded[LastYield(e, m)[1]][LastYield(e, m)[2]].vals[m])

\* C4: a second pass over the same archive with the same registry leaves the
\* table equal to the table after the first pass.
C4_RerunIdempotent ==
  (pc = "done" /\ passes >= 2) => store = after1

\* witness of C4: the second pass is over, it wrote rows, over keys that more
\* than one table of the archive yielded
C4_Witness ==
  /\ pc = "done" /\ passes = 2
  /\ total > 0
  /\ \E e \in Entities, m \in MetricLabels : Cardinality(TablesOf(e, m)) >= 2
  /\ store = after1

-----------------------------------------------------------------------------
(* The unresolved-name log of a pass *)

\* number of lines of the log equal to nm
LinesOf(nm) == Cardinality({ i \in 1..Len(logfile) : logfile[i] = nm })

\* C11 (as stated): at the end of one run each unresolved raw name appears
\* exactly once in the run's unresolved-name log, also when it occurs in
\* several tables or sheets of the run.
C11_LogDeduplicated ==
  (pc = "done" /\ passes = 1) =>
    \A i \in 1..Len(logfile) : LinesOf(logfile[i]) = 1

\* the raw names of the rows of df that are neither empty nor aggregate and
\* that do not resolve, for a table with an entity-name column
UnresolvedNamesOf(df) ==
  IF df.columns = << >> \/ find_col(df.columns, NAME_HINTS) = None THEN {}
  ELSE { nm \in { strip(df.rows[i][find_col(df.columns, NAME_HINTS)[1]]) :
                    i \in 1..Len(df.rows) } :
           /\ nm # << >>
           /\ lower(nm) \notin AggregateMarkers
           /\ map_id(nm, names, ids) = None }

\* C12 (as stated): every unresolved name of a table read in the run is in the
\* unresolved-name log by the end of the run, also when its row has no
\* parseable metric value or the table has no recognised metric column.
C12_EveryUnresolvedLogged ==
  pc = "done" =>
    \A i \in 1..Len(seen) :
      seen[i].read =>
        \A nm \in UnresolvedNamesOf(seen[i].table) :
          \E k \in 1..Len(logfile) : logfile[k] = nm

-----------------------------------------------------------------------------
(* Direct calls of the table parsers *)

ParseColumns == << <<"C","o","m","p","a","n","y">>, <<"S","o","l","v","e","n","c","y"," ","R","a","t","i","o">>, <<"C","l","a","i","m","s"," ","R","a","t","i","o">> >>

\* a row of a table with the columns ParseColumns
ParseRow(nm, solv, claims) ==
  (ParseColumns[1] :> nm) @@ (ParseColumns[2] :> solv) @@ (ParseColumns[3] :> claims)

\* rows: resolved with values, resolved without a parseable value, unresolved,
\* resolved or not by the score drawn, aggregate markers, blank and missing names
RowPool ==
  { ParseRow(<<"A","c","m","e"," ","L","i","f","e">>, <<"1",".","5","0">>, <<"8","0","%">>),
    ParseRow(<<"B","e","t","a"," ","G","e","n","e","r","a","l">>, << "-" >>, NaN),
    ParseRow(<<"X","Y","Z"," ","I","n","s","u","r","n","a","c","e"," ","C","o">>, <<"7","0">>, <<"5">>),
    ParseRow(<<"A","c","m","e"," ","L","f","e">>, <<"3">>, NaN),
    ParseRow(<<"G","R","A","N","D"," ","T","O","T","A","L"," ">>, <<"9">>, <<"9">>),
    ParseRow(<<" ","t","o","t","a","l">>, <<"1">>, NaN),
    ParseRow(<<" "," ">>, <<"4">>, <<"4">>),
    ParseRow(NaN, <<"4">>, <<"4">>),
    ParseRow(<<"Z","e","t","a"," ","M","u","t","u","a","l">>, <<"2",".","2","5">>, <<"6","1">>) }

MaxRows == 2

ParseTables == { [columns |-> ParseColumns, rows |-> rs] : rs \in SeqsUpTo(RowPool, MaxRows) }

ParseYear == 2024

InitParse ==
  /\ insurers \in { SeedRows, SeedRowsZero }
  /\ \E m \in PassAliasFiles :
       /\ name_map = m
       /\ names = load_maps(insurers, m).names
       /\ ids = load_maps(insurers, m).ids
  /\ wratio \in [ { << <<"A","c","m","e"," ","L","f","e">>, <<"A","c","m","e"," ","L","i","f","e">> >> } -> { 84, 85 } ]
  /\ pratio = << >>
  /\ q_df \in ParseTables
  /\ q_v = << >>
  /\ store \in InitialStores
  /\ pc = "parse"
  /\ logfile = << >> /\ archive = << >> /\ pos = 0 /\ total = 0
  /\ yielded = << >> /\ passes = 0 /\ after1 = EmptyBag /\ calls = << >>
  /\ q_raw = << >> /\ q_cols = << >> /\ q_cands = << >> /\ q_out = None
  /\ seen = << >> /\ printed = << >> /\ zips = << >> /\ workers = << >>
  /\ unmatched = {}
  /\ pipeline \in { "ingest_handbooks_5y_and_ar", "run_full_ingestion", "ingest_rescue" }

\* parse_df(df, names, ids, fy) of ingest_handbooks_5y_and_ar.py
CallParseDf ==
  /\ pc = "parse" /\ pipeline = "ingest_handbooks_5y_and_ar"
  /\ \E p \in { parse_df(q_df, names, ids) } :
       /\ q_out' = p
       /\ logfile' = logfile \o Sorted(p.unmatched)
  /\ pc' = "parse_done"
  /\ UNCHANGED << names, ids, wratio, pratio, store, archive, pos, total,
                  yielded, passes, after1, calls, q_raw, q_cols, q_cands >>
  /\ UNCHANGED << q_df, insurers, name_map, q_v, pipeline, unmatched, seen, printed, zips, workers >>

\* parse_and_upsert(year, df, names, ids) of run_full_ingestion.py
CallParseAndUpsert ==
  /\ pc = "parse" /\ pipeline = "run_full_ingestion"
  /\ \E p \in { parse_and_upsert(store, ParseYear, q_df, names, ids) } :
       /\ q_out' = [n |-> p.n, unmatched |-> p.unmatched, raised |-> p.raised]
       /\ store' = p.store
  /\ calls' = [before |-> store]
  /\ pc' = IF q_out'.raised THEN "parse_raised" ELSE "parse_done"
  /\ UNCHANGED << names, ids, wratio, pratio, logfile, archive, pos, total,
                  yielded, passes, after1, q_raw, q_cols, q_cands >>
  /\ UNCHANGED << q_df, insurers, name_map, q_v, pipeline, unmatched, seen, printed, zips, workers >>

\* parse_df(df, names, ids, unmatched) of ingest_rescue.py
CallParseDfRescue ==
  /\ pc = "parse" /\ pipeline = "ingest_rescue"
  /\ \E p \in { parse_df_rescue(q_df, names, ids) } :
       /\ q_out' = p
       /\ unmatched' = unmatched \cup p.unmatched
  /\ pc' = "parse_done"
  /\ UNCHANGED << names, ids, wratio, pratio, store, logfile, archive, pos, total,
                  yielded, passes, after1, calls, q_raw, q_cols, q_cands >>
  /\ UNCHANGED << q_df, insurers, name_map, q_v, pipeline, seen, printed, zips, workers >>

NextParse == CallParseDf \/ CallParseAndUpsert \/ CallParseDfRescue

SpecParse == InitParse /\ [][NextParse]_vars

\* the rows of df whose trimmed name cell is not in S
RECURSIVE RowsNotNamed(_, _, _)
RowsNotNamed(rows, col, S) ==
  IF rows = << >> THEN << >>
  ELSE IF strip(Head(rows)[col]) \in S THEN RowsNotNamed(Tail(rows), col, S)
  ELSE << Head(rows) >> \o RowsNotNamed(Tail(rows), col, S)

\* q_df without the rows whose name does not resolve
ResolvedOnly ==
  [ columns |-> q_df.columns,
    rows |-> RowsNotNamed(q_df.rows, ParseColumns[1], UnresolvedNamesOf(q_df)) ]

\* C13: a row whose entity name does not resolve yields no observation and no
\* record, raises nothing, and leaves the observations of the other rows of
\* the table as they are: the parser returns, and writes, what it returns and
\* writes for the table without that row.
C13_UnresolvedRowContained ==
  /\ (pc = "parse_done" /\ pipeline = "ingest_handbooks_5y_and_ar") =>
       q_out.recs = parse_df(ResolvedOnly, names, ids).recs
  /\ (pc \in { "parse_done", "parse_raised" } /\ pipeline = "run_full_ingestion") =>
       /\ q_out.n = parse_and_upsert(calls.before, ParseYear, ResolvedOnly, names, ids).n
       /\ q_out.raised = parse_and_upsert(calls.before, ParseYear, ResolvedOnly, names, ids).raised
       /\ store = parse_and_upsert(calls.before, ParseYear, ResolvedOnly, names, ids).store

\* witness of C13: parse_df has parsed a table with an unresolved row and a
\* resolved row that yields a record
C13_Witness ==
  /\ pc = "parse_done" /\ pipeline = "ingest_handbooks_5y_and_ar"
  /\ UnresolvedNamesOf(q_df) # {}
  /\ q_out.unmatched # {}
  /\ q_out.recs # << >>

\* the trimmed name cells of the rows the parser is to skip: missing, blank,
\* or an aggregate marker in any letter case
SkippedNames ==
  { nm \in { strip(q_df.rows[i][ParseColumns[1]]) : i \in 1..Len(q_df.rows) } :
      nm = NaN \/ nm = << >> \/ lower(nm) \in AggregateMarkers }

\* q_df without the rows the parser is to skip
WithoutSkipped ==
  [ columns |-> q_df.columns,
    rows |-> RowsNotNamed(q_df.rows, ParseColumns[1], SkippedNames) ]

\* C14 (as stated): a row whose name cell is missing, blank or an aggregate
\* marker yields no observation, no record and no unresolved-name log entry,
\* whatever its other cells hold.
C14_AggregateAndEmptySkipped ==
  /\ (pc = "parse_done" /\ pipeline = "ingest_handbooks_5y_and_ar") =>
       q_out = parse_df(WithoutSkipped, names, ids)
  /\ (pc = "parse_done" /\ pipeline = "run_full_ingestion") =>
       /\ q_out.unmatched =
            parse_and_upsert(calls.before, ParseYear, WithoutSkipped, names, ids).unmatched
       /\ store = parse_and_upsert(calls.before, ParseYear, WithoutSkipped, names, ids).store

\* C16 (as stated): in parse_and_upsert a row whose entity resolves and whose
\* metric cells are all absent is dropped alone: no write fails and nothing
\* is raised.
C16_UnparseableCellContained ==
  pipeline = "run_full_ingestion" => pc # "parse_raised"
-----------------------------------------------------------------------------
(* Failures inside a pass: a table that cannot be read *)

\* the sheets of member m up to, and without, its first unreadable sheet
RECURSIVE ReadablePrefix(_)
ReadablePrefix(sheets) ==
  IF sheets = << >> \/ ~Head(sheets).readable THEN << >>
  ELSE << Head(sheets) >> \o ReadablePrefix(Tail(sheets))

\* what the member writes when the tables from its first unreadable one on
\* are taken out of it
StoreWithoutFailed(st, m) ==
  IF ReadablePrefix(m.sheets) = << >> THEN st
  ELSE ProcessOneOf(NewAcc(st), [m EXCEPT !.sheets = ReadablePrefix(m.sheets)]).store

\* C17: when a table (a member, or a sheet of a workbook) cannot be read, the
\* table adds nothing to the store, what the earlier tables wrote stays, and
\* the loop goes on to the next member of the archive: a step of the member
\* loop leaves the pass in the loop, moves to the next member, and writes
\* what the member writes without its unreadable table.
C17_TableFailureContained ==
  [][ (/\ pc = "members" /\ pos <= Len(archive)
       /\ \E k \in 1..Len(archive[pos].sheets) : ~archive[pos].sheets[k].readable) =>
        /\ pc' = "members"
        /\ pos' = pos + 1
        /\ store' = StoreWithoutFailed(store, archive[pos]) ]_vars

\* a pass that ended after a table could not be read, a later member was read,
\* and records were written
C17_Witness ==
  /\ pc = "done" /\ total > 0
  /\ \E i, j \in 1..Len(seen) : i < j /\ ~seen[i].read /\ seen[j].read

\* C18 (as stated): every skipped table and every skipped period leaves a
\* report: at the end of a pass each table that could not be read has an
\* "Error reading" line, and a period whose download failed has a "Failed" line.
C18_EveryFailureReported ==
  /\ pc = "failed" =>
       \E k \in 1..Len(printed) : printed[k][1] \in { "Failed", "Download failed" }
  /\ pc = "done" =>
       \A i \in 1..Len(seen) :
         ~seen[i].read => \E k \in 1..Len(printed) : printed[k][1] = "Error reading"
-----------------------------------------------------------------------------
(* The runs of the scripts that take one period after the other:
   ingest_rescue.py, ingest_data.py, run_full_ingestion.py *)

MaxPeriods == 2

\* the year of the i-th period of the loop: sorted(links, reverse=True) and
\* HANDBOOK_URLS.items() both start at the latest year
YearOf(i) == 2025 - i

Csv(sheet) == [ext |-> "csv", big |-> TRUE, sheets |-> << sheet >>]

\* archives of a period: a table, a table and an unreadable file, a table
\* with a resolved row whose only cell is "-"
SeqArchives ==
  { << Csv(Sheet(T_solv)) >>,
    << Csv(Sheet(T_claims)), Csv(Corrupt) >>,
    << Csv(Sheet(T_solv2)) >> }

\* a period: what requests.get returns for its url ("http_error": the status
\* is an error or the request fails; "undersized": fewer bytes than the
\* script accepts), and the archive when the download is accepted
Periods ==
  { [download |-> "ok", archive |-> a] : a \in SeqArchives }
    \cup { [download |-> d, archive |-> << >>] : d \in { "http_error", "undersized" } }

\* ingest_data.py, the body of the loop over z.namelist(): the first sheet is
\* read; parse_table, upsert(year, recs)
ProcessOneData(acc, m) ==
  IF m.ext \notin { "csv", "xlsx", "xls" } THEN acc
  ELSE IF ~Head(m.sheets).readable THEN ReadFails(acc)
  ELSE CHOOSE r \in
         { CHOOSE q \in
             { [acc EXCEPT !.store = u.store, !.n = @ + u.n, !.last = u.n,
                           !.yielded = Append(@, p.recs),
                           !.seen = Append(@, [table |-> Head(m.sheets).df, read |-> TRUE]),
                           !.raised = u.raised,
                           !.unmatched = @ \cup p.unmatched] :
                 u \in { upsert_rescue(acc.store, acc.year, p.recs) } } : TRUE :
             p \in { parse_table(Head(m.sheets).df, names, ids) } } : TRUE

\* run_full_ingestion.py, the body of the loop over z.namelist(): the first
\* sheet is read; parse_and_upsert is called outside the try statement
ProcessOneFull(acc, m) ==
  IF m.ext \notin { "csv", "xlsx", "xls" } THEN acc
  ELSE IF ~Head(m.sheets).readable THEN ReadFails(acc)
  ELSE CHOOSE r \in
         { [acc EXCEPT !.store = p.store, !.n = @ + p.n, !.last = p.n,
                       !.seen = Append(@, [table |-> Head(m.sheets).df, read |-> TRUE]),
                       !.raised = p.raised,
                       !.unmatched = IF p.raised THEN @ ELSE @ \cup p.unmatched] :
             p \in { parse_and_upsert(acc.store, acc.year, Head(m.sheets).df, names, ids) } } : TRUE

ProcessOneSeq(acc, m) ==
  IF pipeline = "ingest_rescue" THEN ProcessOneRescue(acc, m)
  ELSE IF pipeline = "ingest_data" THEN ProcessOneData(acc, m)
  ELSE ProcessOneFull(acc, m)

\* the loop over the members of a period; an exception that no except clause
\* of the loop catches ends it
RECURSIVE MembersLoop(_, _)
MembersLoop(acc, members) ==
  IF members = << >> \/ acc.raised THEN acc
  ELSE CHOOSE r \in
         { MembersLoop(nxt, Tail(members)) :
             nxt \in { ProcessOneSeq([acc EXCEPT !.failed = FALSE], Head(members)) } } : TRUE

\* one line for each table of `tables` that could not be read
FailLines(tables, line) ==
  [ i \in 1..Cardinality({ k \in 1..Len(tables) : ~tables[k].read }) |-> line ]

InitSeq ==
  /\ \E m \in PassAliasFiles :
       /\ names = load_maps(SeedRows, m).names
       /\ ids = load_maps(SeedRows, m).ids
  /\ wratio \in [ { << <<"A","c","m","e"," ","L","f","e">>, <<"A","c","m","e"," ","L","i","f","e">> >> } -> { 84, 85 } ]
  /\ pratio = << >>
  /\ store \in InitialStores
  /\ calls = [before |-> store]
  /\ pipeline \in { "ingest_rescue", "ingest_data", "run_full_ingestion" }
  /\ zips \in SeqsUpTo(Periods, MaxPeriods)
  /\ pc = "periods" /\ pos = 1 /\ total = 0
  /\ logfile = << >> /\ printed = << >> /\ seen = << >> /\ unmatched = {}
  /\ archive = << >> /\ yielded = << >> /\ passes = 0 /\ after1 = EmptyBag
  /\ q_raw = << >> /\ q_cols = << >> /\ q_cands = << >> /\ q_out = None
  /\ q_df = << >> /\ workers = << >>
  /\ insurers = << >> /\ name_map = << >> /\ q_v = << >>

\* ingest_rescue.py: total += process_year(yr, links[yr], names, ids)
RescueProcessYear ==
  /\ pc = "periods" /\ pipeline = "ingest_rescue" /\ pos <= Len(zips)
  /\ IF zips[pos].download # "ok"
     THEN /\ printed' = Append(printed, << "Download failed", YearOf(pos) >>)
          /\ UNCHANGED << store, logfile, total, seen >>
     ELSE \E res \in { MembersLoop([NewAcc(store) EXCEPT !.year = YearOf(pos)],
                                   zips[pos].archive) } :
            /\ store' = res.store
            /\ logfile' = logfile \o Sorted(res.unmatched)
            /\ total' = total + res.n
            /\ seen' = seen \o res.seen
            /\ printed' = Append(printed, << "Inserted rows", YearOf(pos), res.n >>)
  /\ pos' = pos + 1
  /\ UNCHANGED << names, ids, wratio, pratio, pc, archive, yielded, passes, after1, calls,
                  q_raw, q_cols, q_cands, q_out, q_df, insurers, name_map, q_v, pipeline, unmatched, zips, workers >>

\* ingest_data.py: total_all += process_year(yr, zip_links[yr]); the call of
\* r.raise_for_status() is in no try statement
DataProcessYear ==
  /\ pc = "periods" /\ pipeline = "ingest_data" /\ pos <= Len(zips)
  /\ IF zips[pos].download = "http_error"
     THEN /\ pc' = "aborted"
          /\ printed' = Append(printed, << "Downloading and processing", YearOf(pos) >>)
          /\ UNCHANGED << store, logfile, total, seen, pos >>
     ELSE IF zips[pos].download = "undersized"
     THEN /\ printed' = printed \o << << "Downloading and processing", YearOf(pos) >>,
                                      << "File too small - skipping", YearOf(pos) >> >>
          /\ pos' = pos + 1
          /\ UNCHANGED << store, logfile, total, seen, pc >>
     ELSE \E res \in { MembersLoop([NewAcc(store) EXCEPT !.year = YearOf(pos)],
                                   zips[pos].archive) } :
            /\ store' = res.store
            /\ logfile' = logfile \o Sorted(res.unmatched)
            /\ total' = total + res.n
            /\ seen' = seen \o res.seen
            /\ printed' = printed
                 \o << << "Downloading and processing", YearOf(pos) >> >>
                 \o FailLines(res.seen, << "Failed to read", YearOf(pos) >>)
                 \o (IF res.unmatched = {} THEN << >>
                     ELSE << << "unmatched insurer names logged", YearOf(pos) >> >>)
                 \o << << "Inserted rows", YearOf(pos), res.n >> >>
            /\ pos' = pos + 1
            /\ UNCHANGED pc
  /\ UNCHANGED << names, ids, wratio, pratio, archive, yielded, passes, after1, calls,
                  q_raw, q_cols, q_cands, q_out, q_df, insurers, name_map, q_v, pipeline, unmatched, zips, workers >>

\* run_full_ingestion.py: one iteration of the loop of ingest_data over
\* HANDBOOK_URLS.items(); resp.raise_for_status() and parse_and_upsert are in
\* no try statement
FullIngestPeriod ==
  /\ pc = "periods" /\ pipeline = "run_full_ingestion" /\ pos <= Len(zips)
  /\ IF zips[pos].download = "http_error"
     THEN /\ pc' = "aborted"
          /\ printed' = Append(printed, << "Downloading", YearOf(pos) >>)
          /\ UNCHANGED << store, total, seen, pos, unmatched >>
     ELSE IF zips[pos].download = "undersized"
     THEN /\ printed' = printed \o << << "Downloading", YearOf(pos) >>,
                                      << "Warning: downloaded file too small", YearOf(pos) >> >>
          /\ pos' = pos + 1
          /\ UNCHANGED << store, total, seen, pc, unmatched >>
     ELSE \E res \in { MembersLoop([NewAcc(store) EXCEPT !.year = YearOf(pos)],
                                   zips[pos].archive) } :
            /\ store' = res.store
            /\ total' = total + res.n
            /\ seen' = seen \o res.seen
            /\ unmatched' = unmatched \cup res.unmatched
            /\ printed' = printed
                 \o << << "Downloading", YearOf(pos) >> >>
                 \o FailLines(res.seen, << "Error reading", YearOf(pos) >>)
            /\ pc' = IF res.raised THEN "aborted" ELSE pc
            /\ pos' = IF res.raised THEN pos ELSE pos + 1
  /\ UNCHANGED << names, ids, wratio, pratio, logfile, archive, yielded, passes, after1,
                  calls, q_raw, q_cols, q_cands, q_out, q_df, insurers, name_map, q_v, pipeline, zips, workers >>

\* the loop over the periods is over: the closing lines of the script; in
\* run_full_ingestion.py the unresolved names of all periods are written first
FinishRun ==
  /\ pc = "periods" /\ pos > Len(zips)
  /\ pc' = "run_done"
  /\ logfile' = IF pipeline = "run_full_ingestion" THEN logfile \o Sorted(unmatched)
                ELSE logfile
  /\ printed' =
       IF pipeline = "ingest_rescue"
       THEN printed \o << << "=== SUMMARY ===", 0 >> >>
                    \o (IF total = 0 THEN << << "No data inserted", 0 >> >> ELSE << >>)
       ELSE IF pipeline = "ingest_data"
       THEN Append(printed, IF total = 0 THEN << "No handbook data ingested", 0 >>
                            ELSE << "Ingestion complete", total >>)
       ELSE printed
              \o (IF unmatched = {} THEN << >>
                  ELSE << << "Unmatched insurer names", Cardinality(unmatched) >> >>)
              \o << << "Total rows inserted", total >> >>
  /\ UNCHANGED << names, ids, wratio, pratio, store, archive, pos, total, yielded,
                  passes, after1, calls, q_raw, q_cols, q_cands, q_out, q_df, insurers, name_map, q_v,
                  pipeline, seen, unmatched, zips, workers >>

NextSeq ==
  \/ RescueProcessYear
  \/ DataProcessYear
  \/ FullIngestPeriod
  \/ FinishRun

SpecSeq == InitSeq /\ [][NextSeq]_vars

\* the rows of the table st for the year y
RowsOfYear(st, y) == { r \in BagToSet(st) : r.year = y }

\* C15 (as stated): in every script, a period whose download fails or is
\* undersized contributes no record, and the run goes on with the remaining
\* periods: the run is never ended by a download, and the rows of the year
\* of a period that was passed over are those the table had before the run.
C15_PeriodFailureNotFatal ==
  /\ pc = "aborted" => zips[pos].download = "ok"
  /\ \A i \in 1..Len(zips) :
       (i < pos /\ zips[i].download # "ok") =>
         RowsOfYear(store, YearOf(i)) = RowsOfYear(calls.before, YearOf(i))
-----------------------------------------------------------------------------
(* ingest_all of ingest_handbooks_5y_and_ar.py: process_year in a pool of
   worker threads *)

\* the keys of FY_TO_YEAR in the order of the dict
FYS == << "2019-20", "2020-21", "2021-22", "2022-23", "2023-24" >>

\* mutant of FY_TO_YEAR: two periods with the same year
FY_TO_YEAR_dup ==
  ("2019-20" :> 2020) @@ ("2020-21" :> 2020) @@ ("2021-22" :> 2022)
    @@ ("2022-23" :> 2023) @@ ("2023-24" :> 2024)

FY_TO_YEAR ==
  ("2019-20" :> 2020) @@ ("2020-21" :> 2021) @@ ("2021-22" :> 2022)
    @@ ("2022-23" :> 2023) @@ ("2023-24" :> 2024)

\* the archive behind the link of each period: csv members, so that a step
\* of a worker is one parse_df call and one upsert transaction
ArchiveOf ==
  ("2019-20" :> << Csv(Sheet(T_solv)) >>)
    @@ ("2020-21" :> << Csv(Sheet(T_claims)), Csv(Sheet(T_solv)) >>)
    @@ ("2021-22" :> << Csv(Corrupt), Csv(Sheet(T_solv2)) >>)
    @@ ("2022-23" :> << Csv(Sheet(T_both)) >>)
    @@ ("2023-24" :> << Csv(Sheet(T_solv2)), Csv(Sheet(T_claims)) >>)

\* tasks = [(fy, year, links.get(fy), names, ids) for fy, year in
\* FY_TO_YEAR.items() if fy in links]; down[fy] is what download_cached will do
RECURSIVE TasksOf(_, _, _)
TasksOf(fys, links, down) ==
  IF fys = << >> THEN << >>
  ELSE IF Head(fys) \notin links THEN TasksOf(Tail(fys), links, down)
  ELSE << [fy |-> Head(fys), year |-> FY_TO_YEAR[Head(fys)],
           download |-> down[Head(fys)], archive |-> ArchiveOf[Head(fys)]] >>
         \o TasksOf(Tail(fys), links, down)

\* max_workers = min(4, len(tasks))
PoolSize(n) == IF n < 4 THEN n ELSE 4

\* a task submitted to the pool: its position, the member it is at, its count,
\* the keys its upsert calls wrote, the lines of its unmatched_names_{fy}.txt,
\* the lines it printed
NewWorker ==
  [ pc |-> "queued", pos |-> 0, total |-> 0, keys |-> {}, log |-> << >>,
    printed |-> << >> ]

\* the (insurer_id, year, source) keys that upsert(year, recs, "handbook")
\* writes for the record lists of `ys`
KeysOf(ys, year) ==
  { << ys[t][i].insurer_id[1], year, "handbook" >> :
      << t, i >> \in { p \in (1..Len(ys)) \X (1..4) :
                         p[2] <= Len(ys[p[1]]) /\ ~Falsy(ys[p[1]][p[2]].insurer_id) } }

InitRun ==
  /\ \E m \in PassAliasFiles :
       /\ names = load_maps(SeedRows, m).names
       /\ ids = load_maps(SeedRows, m).ids
  /\ wratio = (<< <<"A","c","m","e"," ","L","f","e">>, <<"A","c","m","e"," ","L","i","f","e">> >> :> 85)
  /\ pratio = (<< <<"s","o","l","v","e","n","c","y"," ","r","a","t","i","o">>, <<"s","o","l","v","n","c","y"," ","r","t","i","o">> >> :> 90)
  /\ store \in InitialStores
  /\ calls = [before |-> store]
  /\ pipeline = "ingest_handbooks_5y_and_ar"
  /\ pc = "start" /\ zips = << >> /\ workers = << >> /\ total = 0
  /\ logfile = << >> /\ printed = << >> /\ seen = << >> /\ unmatched = {}
  /\ archive = << >> /\ pos = 0 /\ yielded = << >> /\ passes = 0 /\ after1 = EmptyBag
  /\ q_raw = << >> /\ q_cols = << >> /\ q_cands = << >> /\ q_out = None
  /\ q_df = << >>
  /\ insurers = << >> /\ name_map = << >> /\ q_v = << >>

\* ingest_all up to the creation of the pool: links is what discover_zip_links
\* found; ThreadPoolExecutor(max_workers=0) raises ValueError
IngestAllStart(links, down) ==
  /\ pc = "start"
  /\ \E tasks \in { TasksOf(FYS, links, down) } :
       /\ zips' = tasks
       /\ workers' = [i \in 1..Len(tasks) |-> NewWorker]
       /\ pc' = IF PoolSize(Len(tasks)) = 0 THEN "raised" ELSE "pool"
  /\ UNCHANGED << names, ids, wratio, pratio, store, logfile, archive, pos, total,
                  yielded, passes, after1, calls, q_raw, q_cols, q_cands, q_out,
                  q_df, insurers, name_map, q_v, pipeline, seen, printed, unmatched >>

\* a free thread of the pool takes the first task of the queue: process_year
\* up to the return of download_cached
TaskStart(i) ==
  /\ pc = "pool" /\ i \in DOMAIN workers
  /\ workers[i].pc = "queued"
  /\ \A j \in 1..(i - 1) : workers[j].pc # "queued"
  /\ Cardinality({ j \in DOMAIN workers : workers[j].pc = "running" }) < PoolSize(Len(zips))
  /\ workers' = [workers EXCEPT ![i] =
       IF zips[i].download = "ok"
       THEN [@ EXCEPT !.pc = "running", !.pos = 1]
       ELSE [@ EXCEPT !.pc = "failed", !.printed = Append(@, << "Failed" >>)]]
  /\ UNCHANGED << names, ids, wratio, pratio, store, logfile, pc, archive, pos, total,
                  yielded, passes, after1, calls, q_raw, q_cols, q_cands, q_out,
                  q_df, insurers, name_map, q_v, pipeline, seen, printed, unmatched, zips >>

\* mutant of TaskMember: the names the member could not resolve are added to
\* the known names
TaskMember_learn(i) ==
  /\ pc = "pool" /\ i \in DOMAIN workers
  /\ workers[i].pc = "running" /\ workers[i].pos <= Len(zips[i].archive)
  /\ \E res \in { ProcessOne([NewAcc(store) EXCEPT !.year = zips[i].year],
                             zips[i].archive[workers[i].pos]) } :
       /\ store' = res.store
       /\ names' = names \o res.log
       /\ workers' = [workers EXCEPT ![i] =
            [@ EXCEPT !.pos = @ + 1,
                      !.total = @ + res.n,
                      !.keys = @ \cup KeysOf(res.yielded, zips[i].year),
                      !.log = @ \o res.log,
                      !.printed = IF res.failed /\ VERBOSE
                                  THEN Append(@, << "Error reading" >>) ELSE @]]
  /\ UNCHANGED << ids, wratio, pratio, logfile, pc, archive, pos, total,
                  yielded, passes, after1, calls, q_raw, q_cols, q_cands, q_out,
                  q_df, insurers, name_map, q_v, pipeline, seen, printed, unmatched, zips >>

\* one iteration of the member loop of task i
TaskMember(i) ==
  /\ pc = "pool" /\ i \in DOMAIN workers
  /\ workers[i].pc = "running" /\ workers[i].pos <= Len(zips[i].archive)
  /\ \E res \in { ProcessOne([NewAcc(store) EXCEPT !.year = zips[i].year],
                             zips[i].archive[workers[i].pos]) } :
       /\ store' = res.store
       /\ workers' = [workers EXCEPT ![i] =
            [@ EXCEPT !.pos = @ + 1,
                      !.total = @ + res.n,
                      !.keys = @ \cup KeysOf(res.yielded, zips[i].year),
                      !.log = @ \o res.log,
                      !.printed = IF res.failed /\ VERBOSE
                                  THEN Append(@, << "Error reading" >>) ELSE @]]
  /\ UNCHANGED << names, ids, wratio, pratio, logfile, pc, archive, pos, total,
                  yielded, passes, after1, calls, q_raw, q_cols, q_cands, q_out,
                  q_df, insurers, name_map, q_v, pipeline, seen, printed, unmatched, zips >>

\* the member loop of task i is over: "[fy] Done, inserted", return total
TaskFinish(i) ==
  /\ pc = "pool" /\ i \in DOMAIN workers
  /\ workers[i].pc = "running" /\ workers[i].pos > Len(zips[i].archive)
  /\ workers' = [workers EXCEPT ![i] =
       [@ EXCEPT !.pc = "done", !.printed = Append(@, << "Done, inserted", workers[i].total >>)]]
  /\ UNCHANGED << names, ids, wratio, pratio, store, logfile, pc, archive, pos, total,
                  yielded, passes, after1, calls, q_raw, q_cols, q_cands, q_out,
                  q_df, insurers, name_map, q_v, pipeline, seen, printed, unmatched, zips >>

RECURSIVE SumTotals(_, _)
SumTotals(ws, i) == IF i = 0 THEN 0 ELSE ws[i].total + SumTotals(ws, i - 1)

\* every task has returned: the results of exe.map are added up,
\* fetch_ar_2023_24() prints its line, "Total rows inserted"
Report(ar) ==
  /\ pc = "pool"
  /\ \A i \in DOMAIN workers : workers[i].pc \in { "done", "failed" }
  /\ total' = SumTotals(workers, Len(workers))
  /\ printed' = printed \o << << ar >>, << "Total rows inserted", total' >> >>
  /\ pc' = "run_done"
  /\ UNCHANGED << names, ids, wratio, pratio, store, logfile, archive, pos,
                  yielded, passes, after1, calls, q_raw, q_cols, q_cands, q_out,
                  q_df, insurers, name_map, q_v, pipeline, seen, unmatched, zips, workers >>

NextRun ==
  \/ \E links \in SUBSET Range(FYS) : \E down \in [links -> { "ok", "fail" }] :
       IngestAllStart(links, down)
  \/ \E i \in 1..Len(FYS) : TaskStart(i)
  \/ \E i \in 1..Len(FYS) : TaskMember(i)
  \/ \E i \in 1..Len(FYS) : TaskFinish(i)
  \/ \E ar \in { "Cached Annual Report", "Annual Report not found", "AR fetch failed" } :
       Report(ar)

SpecRun == InitRun /\ [][NextRun]_vars

\* the orders in which the tasks of S can be run one after the other
RECURSIVE Orders(_)
Orders(S) ==
  IF S = {} THEN { << >> }
  ELSE UNION { { << x >> \o p : p \in Orders(S \ {x}) } : x \in S }

\* the table after process_year's member loop over `members`, run alone
RECURSIVE StoreAfterMembers(_, _, _)
StoreAfterMembers(st, members, year) ==
  IF members = << >> THEN st
  ELSE CHOOSE r \in
         { StoreAfterMembers(nxt, Tail(members), year) :
             nxt \in { ProcessOne([NewAcc(st) EXCEPT !.year = year], Head(members)).store } } : TRUE

\* the tasks whose archive is downloaded; the other ones return at once and
\* write nothing, wherever they stand in an order
Downloaded == { i \in DOMAIN workers : zips[i].download = "ok" }

\* the table after the tasks are run one after the other in the order `order`
RECURSIVE StoreAfterOrder(_, _)
StoreAfterOrder(st, order) ==
  IF order = << >> THEN st
  ELSE CHOOSE r \in
         { StoreAfterOrder(nxt, Tail(order)) :
             nxt \in { StoreAfterMembers(st, zips[Head(order)].archive,
                                         zips[Head(order)].year) } } : TRUE

\* C19: under every interleaving of the workers no two of them write the same
\* (entity, year, source) key, and when the run has ended the table is the one
\* obtained by running the same periods one after the other, in any order.
C19_WorkerIsolation ==
  /\ \A i, j \in DOMAIN workers : i # j => workers[i].keys \cap workers[j].keys = {}
  /\ pc = "run_done" =>
       \A order \in Orders(Downloaded) : store = StoreAfterOrder(calls.before, order)

\* two workers are in their member loops at the same time and both have written
C19_Witness ==
  \E i, j \in DOMAIN workers :
    /\ i # j
    /\ workers[i].pc = "running" /\ workers[j].pc = "running"
    /\ workers[i].keys # {} /\ workers[j].keys # {}

\* C20 (as stated): every execution of ingest_all ends by printing the total
\* row count, for every set of links found and every outcome of the downloads,
\* the empty set of links included: a run that has ended has printed the line.
C20_RunEndsWithCount ==
  pc \in { "run_done", "raised" } =>
    \E k \in 1..Len(printed) : printed[k][1] = "Total rows inserted"
-----------------------------------------------------------------------------
(* Loading the registry: load_maps applied to drawn alias files (SpecLoad) *)

MaxAliases == 2

\* keys of the alias file: two new spellings, a canonical name of the seed
\* table, and a name no entry of the table carries
AliasRaws ==
  { <<"A","c","m","e"," ","L","i","f","e"," ","I","n","s","u","r","a","n","c","e">>, <<"A","C","M","E"," ","L","I","F","F">>, <<"B","e","t","a"," ","G","e","n","e","r","a","l">>, <<"G","a","m","m","a"," ","R","e">> }

\* values of the alias file: two canonical names, a name that is not in the
\* table, and a string that is known only when an earlier entry added it
AliasTargets ==
  { <<"A","c","m","e"," ","L","i","f","e">>, <<"B","e","t","a"," ","G","e","n","e","r","a","l">>, <<"G","a","m","m","a"," ","R","e","i","n","s","u","r","a","n","c","e">>, <<"A","c","m","e"," ","L","i","f","e"," ","I","n","s","u","r","a","n","c","e">> }

\* yaml.safe_load(f) or {}: a mapping, so no key occurs twice; items() keeps
\* the order of the file
DrawnAliasFiles ==
  { m \in SeqsUpTo(AliasRaws \X AliasTargets, MaxAliases) :
      \A i, j \in 1..Len(m) : i # j => m[i][1] # m[j][1] }

InitLoad ==
  /\ names = << >> /\ ids = << >> /\ wratio = << >> /\ pratio = << >>
  /\ q_raw = << >> /\ q_cols = << >> /\ q_cands = << >> /\ q_out = None
  /\ pc = "load_maps"
  /\ store = EmptyBag /\ logfile = << >> /\ archive = << >> /\ pos = 0 /\ total = 0
  /\ yielded = << >> /\ passes = 0 /\ after1 = EmptyBag /\ calls = << >>
  /\ q_df = << >> /\ seen = << >> /\ printed = << >> /\ zips = << >> /\ workers = << >>
  /\ pipeline \in { "ingest_handbooks_5y_and_ar", "run_full_ingestion" }
  /\ unmatched = {}
  /\ insurers \in { SeedRows, SeedRowsZero }
  /\ name_map \in DrawnAliasFiles
  /\ q_v = << >>

\* names, ids = load_maps()
CallLoadMaps ==
  /\ pc = "load_maps"
  /\ \E r \in { load_maps(insurers, name_map) } :
       /\ names' = r.names
       /\ ids' = r.ids
  /\ pc' = "loaded"
  /\ UNCHANGED << wratio, pratio, store, logfile, archive, pos, total, yielded,
                  passes, after1, calls, q_raw, q_cols, q_cands, q_out, q_df,
                  insurers, name_map, q_v, pipeline, seen, printed, zips, workers,
                  unmatched >>

SpecLoad == InitLoad /\ [][CallLoadMaps]_vars

-----------------------------------------------------------------------------
(* Claims on the registry (SpecLoad) *)

SeedNames == { insurers[i][1] : i \in 1..Len(insurers) }
SeedIds == { insurers[i][2] : i \in 1..Len(insurers) }

\* the strings that are known names when entry k of the alias file is reached
RECURSIVE KnownAt(_)
KnownAt(k) ==
  IF k = 1 THEN SeedNames
  ELSE KnownAt(k - 1) \cup
       (IF name_map[k - 1][2] \in KnownAt(k - 1) THEN { name_map[k - 1][1] } ELSE {})

Occurrences(seq, x) == Cardinality({ i \in 1..Len(seq) : seq[i] = x })

\* C21: after load_maps every identifier in ids is the identifier of a seeded
\* entity, and an alias entry whose target is not a known name adds nothing:
\* its raw string is neither a new key of ids nor a new element of names.
C21_AliasTargetsExist ==
  pc = "loaded" =>
    /\ \A x \in DOMAIN ids : ids[x] \in SeedIds
    /\ \A k \in 1..Len(name_map) :
         name_map[k][2] \notin KnownAt(k) =>
           /\ Occurrences(names, name_map[k][1]) =
                Occurrences([i \in 1..Len(insurers) |-> insurers[i][1]], name_map[k][1])
           /\ name_map[k][1] \in DOMAIN ids => name_map[k][1] \in SeedNames

\* the file had an entry with an unknown target next to one with a known target
C21_Witness ==
  /\ pc = "loaded"
  /\ \E k \in 1..Len(name_map) : name_map[k][2] \notin KnownAt(k)
  /\ \E k \in 1..Len(name_map) :
       name_map[k][2] \in KnownAt(k) /\ name_map[k][1] \notin SeedNames
  /\ Len(names) > Len(insurers)

\* C22 (as stated): for every alias file, one in which an alias string equals
\* the canonical name of another entity included, every canonical name still
\* maps to its own entity's identifier and no string occurs twice in names.
C22_AliasesNeverShadow ==
  pc = "loaded" =>
    /\ \A i \in 1..Len(insurers) : ids[insurers[i][1]] = insurers[i][2]
    /\ \A x \in Range(names) : Occurrences(names, x) = 1
-----------------------------------------------------------------------------
(* Claims on the records of a table (SpecParse) *)

\* C23 (as stated): the record list parse_df returns has at most one record
\* for an entity identifier, also when two different raw names of the table
\* resolve to the same entity.
C23_OneRecordPerEntity ==
  (pc = "parse_done" /\ pipeline \in { "ingest_handbooks_5y_and_ar", "ingest_rescue" }) =>
    \A i, j \in 1..Len(q_out.recs) :
      i # j => q_out.recs[i].insurer_id # q_out.recs[j].insurer_id

\* the rows of q_df whose name is a key of ids and that have a parseable
\* value in the solvency column
ExactRowsWithValue ==
  { i \in 1..Len(q_df.rows) :
      /\ q_df.rows[i][ParseColumns[1]] # NaN
      /\ normalize(q_df.rows[i][ParseColumns[1]]) \in DOMAIN ids
      /\ clean_num(q_df.rows[i][ParseColumns[2]]) # None }

\* C28 (as stated): for every entity of the registry, the one whose identifier
\* is 0 included, a row whose name is exactly a known name of the entity
\* yields a record, the record is written by upsert, and the name is not
\* added to the unresolved names.
C28_ResolutionIgnoresIdValue ==
  (pc = "parse_done" /\ pipeline \in { "ingest_handbooks_5y_and_ar", "ingest_rescue" }) =>
    \A i \in ExactRowsWithValue :
      \E iid \in { ids[normalize(q_df.rows[i][ParseColumns[1]])] } :
        /\ \E k \in 1..Len(q_out.recs) : q_out.recs[k].insurer_id = Some(iid)
        /\ strip(q_df.rows[i][ParseColumns[1]]) \notin q_out.unmatched
        /\ \E r \in DOMAIN upsert(store, ParseYear, q_out.recs, "handbook").store :
             r.insurer_id = iid /\ r.year = ParseYear
-----------------------------------------------------------------------------
(* Applying the value cleaners to drawn cells (SpecClean) *)

\* what a cell holds between its prefix and its suffix: null tokens in several
\* letter cases, numerals with separators, strings float() rejects
CellCores ==
  { << >>, <<"-">>, <<".">>, <<"n","a">>, <<"N","A">>, <<"N","a">>, <<"n","/","a">>, <<"N","/","A">>, <<"n","a","n">>,
    <<"1",",","2","3","4",".","5","0">>, <<"1","2","3","4">>, <<"1","2",".","5">>, <<"0",".","0","7">>, <<"1",",","0","0",",","0","0","0">>, <<"7",".">>,
    <<"1",".","2",".","3">>, <<"1","2",".",".","5">>, <<"1","-","2">>, <<"5","-">>, <<"a","b","c">> }

CellPrefixes == { << >>, <<" ">>, <<"-">>, <<"R","s","."," ">> }

CellSuffixes == { << >>, <<" ">>, <<"%">> }

Cells == { p \o c \o x : p \in CellPrefixes, c \in CellCores, x \in CellSuffixes }

InitClean ==
  /\ q_v \in Cells
  /\ pipeline \in { "ingest_handbooks_5y_and_ar", "ingest_data" }
  /\ pc = "clean_num"
  /\ names = << >> /\ ids = << >> /\ wratio = << >> /\ pratio = << >>
  /\ q_raw = << >> /\ q_cols = << >> /\ q_cands = << >> /\ q_out = None
  /\ store = EmptyBag /\ logfile = << >> /\ archive = << >> /\ pos = 0 /\ total = 0
  /\ yielded = << >> /\ passes = 0 /\ after1 = EmptyBag /\ calls = << >>
  /\ q_df = << >> /\ seen = << >> /\ printed = << >> /\ zips = << >> /\ workers = << >>
  /\ insurers = << >> /\ name_map = << >> /\ unmatched = {}

\* clean_num(v) of ingest_handbooks_5y_and_ar.py
CallCleanNum ==
  /\ pc = "clean_num" /\ pipeline = "ingest_handbooks_5y_and_ar"
  /\ q_out' = clean_num(q_v)
  /\ pc' = "cleaned"
  /\ UNCHANGED << names, ids, wratio, pratio, store, logfile, archive, pos, total,
                  yielded, passes, after1, calls, q_raw, q_cols, q_cands, q_df,
                  insurers, name_map, q_v, pipeline, seen, printed, zips, workers,
                  unmatched >>

\* clean_num(v) of ingest_data.py
CallCleanNumPlain ==
  /\ pc = "clean_num" /\ pipeline = "ingest_data"
  /\ q_out' = clean_num_full(q_v)
  /\ pc' = "cleaned"
  /\ UNCHANGED << names, ids, wratio, pratio, store, logfile, archive, pos, total,
                  yielded, passes, after1, calls, q_raw, q_cols, q_cands, q_df,
                  insurers, name_map, q_v, pipeline, seen, printed, zips, workers,
                  unmatched >>

NextClean == CallCleanNum \/ CallCleanNumPlain

SpecClean == InitClean /\ [][NextClean]_vars

-----------------------------------------------------------------------------
(* Claims on the value cleaner (SpecClean) *)

\* what is left of the cell when the regular expression has been applied
Residual ==
  KeepNumeric(RemoveAll(RemoveAll(RemoveAll(RemoveAll(q_v, << "," >>), << "%" >>),
                                  << "R","s","." >>), << "R","s" >>))

\* C24: clean_num returns a number or None, whatever the cell holds, and None
\* when the residual string has more than one decimal point or a minus sign
\* that is not its first character.
C24_CleanerTotal ==
  (pc = "cleaned" /\ pipeline = "ingest_handbooks_5y_and_ar") =>
    /\ q_out = None \/ (Len(q_out) = 1 /\ q_out[1] \in Int)
    /\ ( \/ Cardinality({ i \in 1..Len(Residual) : Residual[i] = "." }) > 1
         \/ \E i \in 2..Len(Residual) : Residual[i] = "-" ) => q_out = None

\* cells whose residual has two decimal points, and cells whose residual has
\* a minus sign after a digit, have been cleaned
C24_Witness ==
  /\ pc = "cleaned" /\ pipeline = "ingest_handbooks_5y_and_ar"
  /\ \E i \in 2..Len(Residual) : Residual[i] = "-" /\ Residual[i - 1] # "-"
  /\ q_out = None

\* the tokens that stand for no value
AbsentTokens == { << >>, <<"-">>, <<".">>, <<"n","a">>, <<"n","/","a">> }

\* C25: a cell that is "", "-", ".", "na" or "n/a" in any letter case, with or
\* without whitespace around it, is cleaned to None by the regular-expression
\* variant and by the plain variant.
C25_NullTokens ==
  (pc = "cleaned" /\ lower(strip(q_v)) \in AbsentTokens) => q_out = None

\* the plain variant has cleaned " N/A " or the like
C25_Witness ==
  /\ pc = "cleaned" /\ pipeline = "ingest_data"
  /\ lower(strip(q_v)) = <<"n","/","a">> /\ q_v # <<"n","/","a">>
  /\ q_out = None

\* numerals and the numbers they denote, in hundredths
Denoted ==
  (<<"1",",","2","3","4",".","5","0">> :> 123450) @@ (<<"1","2","3","4">> :> 123400) @@ (<<"1","2",".","5">> :> 1250) @@
  (<<"0",".","0","7">> :> 7) @@ (<<"1",",","0","0",",","0","0","0">> :> 10000000) @@ (<<"7",".">> :> 700)

\* C26: digits with comma separators and at most one decimal point, with or
\* without a leading minus sign and a trailing percent sign, are cleaned to
\* the number they denote.
C26_NumericCleaning ==
  (pc = "cleaned" /\ pipeline = "ingest_handbooks_5y_and_ar") =>
    \A c \in DOMAIN Denoted :
      /\ q_v \in { c, c \o <<"%">> } => q_out = Some(Denoted[c])
      /\ q_v \in { <<"-">> \o c, <<"-">> \o c \o <<"%">> } => q_out = Some(0 - Denoted[c])

\* "-1,234.50%" has been cleaned to -1234.50
C26_Witness ==
  /\ pc = "cleaned" /\ pipeline = "ingest_handbooks_5y_and_ar"
  /\ q_v = <<"-","1",",","2","3","4",".","5","0","%">>
  /\ q_out = Some(0 - 123450)
-----------------------------------------------------------------------------
(* The registry during a run of ingest_all (SpecRun) *)

\* C27: once load_maps has returned, no step of a run changes names or ids:
\* not the start of a task, not a member's parse_df, map_id and upsert, not
\* the end of a task, whatever the interleaving of the workers.
C27_RegistryImmutable == [][names' = names /\ ids' = ids]_vars

\* the run has ended, and a worker has written rows and met names that do not
\* resolve
C27_Witness ==
  /\ pc = "run_done"
  /\ \E i \in DOMAIN workers : workers[i].total > 0 /\ workers[i].log # << >>
  /\ Len(names) = 3
-----------------------------------------------------------------------------
(* Sheet coverage of a workbook member (Spec) *)

\* the rows the upsert of the first sheet of member m writes, on the table st
FirstSheetCount(st, m) ==
  upsert(st, PassYear, parse_df(Head(m.sheets).df, names, ids).recs, "handbook").n

\* the tables a step has added to the history of the pass
NewlySeen == [k \in 1..(Len(seen') - Len(seen)) |-> seen'[Len(seen) + k]]

\* C29 (as stated): in process_year of ingest_handbooks_5y_and_ar.py, for a
\* workbook member whose first sheet is read, the sheets after the first are
\* parsed and upserted if and only if the upsert of the first sheet wrote no
\* row: with a first sheet that wrote a row the first sheet alone is parsed,
\* and with one that wrote none every sheet of the workbook is.
C29_SheetCoverage ==
  [][ (/\ pc = "members" /\ pos <= Len(archive)
       /\ pipeline = "ingest_handbooks_5y_and_ar"
       /\ archive[pos].ext \in { "xlsx", "xls" } /\ archive[pos].big
       /\ Head(archive[pos].sheets).readable) =>
        /\ FirstSheetCount(store, archive[pos]) > 0 =>
             /\ Len(NewlySeen) = 1
             /\ NewlySeen[1].table = Head(archive[pos].sheets).df
        /\ FirstSheetCount(store, archive[pos]) = 0 =>
             /\ Len(NewlySeen) = Len(archive[pos].sheets)
             /\ \A k \in 1..Len(archive[pos].sheets) :
                  /\ NewlySeen[k].read
                  /\ NewlySeen[k].table = archive[pos].sheets[k].df ]_vars
-----------------------------------------------------------------------------
(* The frame of upsert (SpecUpsert) *)

\* the entity identifiers the records of the last call carry
EntitiesInRecs ==
  { calls.recs[i].insurer_id[1] :
      i \in { k \in 1..Len(calls.recs) : calls.recs[k].insurer_id # None } }

\* row has the year and the source of the last call and an entity of its records
KeyOfCall(row) ==
  /\ row.insurer_id \in EntitiesInRecs
  /\ row.year = calls.year
  /\ row.source = calls.source

\* C30 (as stated): a call upsert(year, recs, source) changes only the rows
\* whose key is (entity, year, source) for an entity of recs, every other row
\* is as it was, and the count returned is the number of the records of recs
\* that carry an entity identifier.
C30_UpsertFrame ==
  (pc = "upsert" /\ passes > 0 /\ calls.source # NULL) =>
    /\ \A row \in BagToSet(calls.before) \cup BagToSet(store) :
         ~KeyOfCall(row) => CopiesIn(row, store) = CopiesIn(row, calls.before)
    /\ ~calls.raised =>
         calls.n = Cardinality({ k \in 1..Len(calls.recs) : calls.recs[k].insurer_id # None })

====
